---- MODULE Spec2Model ----
(***************************************************************************)
(* Model of scrape.py: the catalog fetch with page-size fallback, the zone *)
(* filter and single-show stage of main(), and the OMDb enrichment merger  *)
(* (fetch_omdb_data, enrich_with_omdb) with its per-day sqlite cache.      *)
(***************************************************************************)
EXTENDS Integers, Sequences, FiniteSets, TLC

(* ---------------------------- values ----------------------------------- *)

\* Film identities ("slug"); the three of the end-to-end scenario.
Slugs == {"a", "b", "c"}
SlugSeq == <<"a", "b", "c">>

\* Python None / SQL NULL, a key missing from a dict, OMDb's sentinel.
None == "None"
Absent == "<absent>"
NA == "N/A"

\* Largest batch handed to enrich_with_omdb in SpecMerger.
MaxBatch == 2
\* Number of runs of the merger on one calendar day in SpecMerger.
MaxRuns == 2

\* Steps (tracker calls and clock advances) of a behaviour of SpecTracker.
MaxSteps == 5
\* Clock units per second: the clock is finer than the stored timestamps.
UnitsPerSecond == 2

PAGE_SIZES == <<100, 50, 20>>
MAX_OMDB_WORKERS == 10
NEW_BOOKABLE_HOURS == 72
NEW_SOON_HOURS == 24
\* total_seconds() / 3600.0
SecondsPerHour == 3600

\* dict.get(k) of a value that may be missing.
Get(v) == IF v = Absent THEN None ELSE v

\* Python truthiness of a str-or-None value.
Truthy(v) == v \notin {Absent, None, ""}

(* ------------------------ the OMDb provider ---------------------------- *)

\* The keys of the dict fetch_omdb_data returns, and the card / cache keys.
DataKeys == {"imdbRating", "imdbVotes", "imdbID", "omdbPoster",
             "rtRating", "mcRating", "runtime"}
CardKeys == {"omdbRating", "omdbVotes", "imdbID", "omdbPoster",
             "rtRating", "mcRating", "runtime"}

\* Representative JSON answers of the provider; exc marks a get_json that
\* raised instead of answering.  RT and MC stand for the
\* Value of the "Rotten Tomatoes" and "Metacritic" entries of Ratings.
HitFull == [exc |-> FALSE, Response |-> "True", Error |-> Absent, imdbRating |-> "7.5",
            imdbVotes |-> "1,234", imdbID |-> "tt1", Poster |-> "http://p",
            Runtime |-> "120 min", RT |-> "93%", MC |-> "74/100"]
HitNA == [exc |-> FALSE, Response |-> "True", Error |-> Absent, imdbRating |-> NA,
          imdbVotes |-> NA, imdbID |-> NA, Poster |-> NA,
          Runtime |-> NA, RT |-> NA, MC |-> NA]
HitBare == [exc |-> FALSE, Response |-> "True", Error |-> Absent, imdbRating |-> Absent,
            imdbVotes |-> Absent, imdbID |-> "tt2", Poster |-> Absent,
            Runtime |-> Absent, RT |-> Absent, MC |-> Absent]
Miss(err) == [exc |-> FALSE, Response |-> "False", Error |-> err, imdbRating |-> Absent,
              imdbVotes |-> Absent, imdbID |-> Absent, Poster |-> Absent,
              Runtime |-> Absent, RT |-> Absent, MC |-> Absent]
NotFound == Miss("Movie not found!")
OtherError == Miss("Request limit reached!")
\* get_json raised (connection error, 5xx after the retries, bad JSON).
Transport == [exc |-> TRUE, Response |-> Absent, Error |-> Absent,
              imdbRating |-> Absent, imdbVotes |-> Absent, imdbID |-> Absent,
              Poster |-> Absent, Runtime |-> Absent, RT |-> Absent, MC |-> Absent]

OmdbAnswers == {HitFull, HitNA, HitBare, NotFound, OtherError}
OmdbOutcomes == OmdbAnswers \cup {Transport}


(* What the upstream services may do in one behaviour: for every title the
   answers OMDb may give to the first request and to the retry, the
   production years the show dict may carry, whether deriving title and
   year from the show dict may raise; the slugs a catalog page and a zone
   listing may hold; the titles the zone reports bookable and the titles
   flagged isComingSoon. *)
AnyWorld ==
  [first  |-> [s \in Slugs |-> OmdbOutcomes],
   retry  |-> [s \in Slugs |-> OmdbOutcomes],
   years  |-> [s \in Slugs |-> {"", "2025", "TBA"}],
   raises |-> [s \in Slugs |-> BOOLEAN],
   catalogs |-> SUBSET Slugs,
   zones  |-> SUBSET Slugs,
   bookable |-> {"a"},
   soon   |-> {"c"}]

\* AnyWorld without the show dicts whose year is no number and without the
\* answer that lacks every field.
MergerWorld ==
  [AnyWorld EXCEPT !.first = [s \in Slugs |-> OmdbOutcomes \ {HitBare}],
                   !.retry = [s \in Slugs |-> OmdbOutcomes \ {HitBare}],
                   !.years = [s \in Slugs |-> {"", "2025"}]]

\* The end-to-end scenario: the catalog holds a, b and c (a page may still
\* come back empty), the zone a and c, and OMDb knows a and b, not c.
KnownWorld ==
  [first  |-> [s \in Slugs |-> IF s = "c" THEN {NotFound} ELSE {HitFull}],
   retry  |-> [s \in Slugs |-> {NotFound}],
   years  |-> [s \in Slugs |-> {"2025"}],
   raises |-> [s \in Slugs |-> {FALSE}],
   catalogs |-> {{}, {"a", "b", "c"}},
   zones  |-> {{"a", "c"}},
   bookable |-> {"a"},
   soon   |-> {"c"}]

\* A scenario with failures: any catalog and any zone listing; a's lookup
\* fails in transport, b's answer is full of sentinels, and c's show dict
\* makes the derivation of the year raise.
FaultyWorld ==
  [first  |-> [s \in Slugs |-> IF s = "a" THEN {Transport} ELSE {HitNA}],
   retry  |-> [s \in Slugs |-> {Transport}],
   years  |-> [s \in Slugs |-> {""}],
   raises |-> [s \in Slugs |-> IF s = "c" THEN {TRUE} ELSE {FALSE}],
   catalogs |-> SUBSET Slugs,
   zones  |-> SUBSET Slugs,
   bookable |-> {"a", "b"},
   soon   |-> {"b", "c"}]

(* ------------------------------ state ---------------------------------- *)

VARIABLES
  pc,            \* position of main()
  sizeIdx,       \* fetch_shows: index into PAGE_SIZES of the next request
  requested,     \* fetch_shows: page sizes requested so far, in order
  replies,       \* fetch_shows: what each of these requests delivered
  catalog,       \* slugs of the list fetch_shows returned
  stubs,         \* slugs whose record came from the single-show endpoint alone
  zone_slugs,    \* result of fetch_zone_slugs
  zone_shows,    \* keys of the result of fetch_zone_shows
  shows,         \* the list `shows` of main(), as a set of item records
  futs,          \* single-show stage: slug -> task not yet drained
  exitCode,      \* process exit status, None while running
  written,       \* number of times the output file was written
  cinemaIdx,     \* index into FAV_CINEMAS of the next cinema to fetch
  now,           \* the UTC clock, in clock units since the first run began
  seen,          \* table seen: slug -> first_seen
  seen_bookable, \* table seen_bookable: slug -> first_seen
  seen_soon,     \* table seen_soon: slug -> first_seen
  steps,         \* tracker calls and clock advances observed so far
  lastCall,      \* the latest tracker call observed: arguments, row read, result
  failed,        \* single-show stage: slugs whose enrich_or_fetch returned None
  dbAccess,      \* statements run on movies.db so far: thread, table, operation
  cache,         \* table omdb_cache as this connection sees it
  disk,          \* table omdb_cache as committed
  clockDay,      \* dt.date.today()
  api_key,       \* TRUE iff enrich_with_omdb is given an API key
  today,         \* enrich_with_omdb: its local `today`
  mpc,           \* position of enrich_with_omdb
  missing,       \* enrich_with_omdb: slugs of the list `missing`
  task,          \* slug -> state of its fetch_omdb_data task
  drained,       \* slugs whose future the drain loop has handled
  upserts,       \* slug -> INSERT OR REPLACE statements executed this run
  run,           \* number of the current run of the merger
  prevRun,       \* how the previous run of the merger ended, what it drained
  world,         \* what the upstream services may answer in this behaviour
  cacheAtStart,  \* omdb_cache when the current run of the merger started
  leakFuts,      \* leak stage: slugs whose check_leak future is not drained
  leaks,         \* the dict `leaks` of main(): imdbID -> bool
  leakQueries,   \* slug -> what each check_leak query made for it this run met
  prevLeaks,     \* the dict `leaks` at the end of the previous run
  page,          \* the generated page: "none", "args" (build_html called), "loaded"
  cardArgs,      \* what build_html reads for one card
  cardDom,       \* the card as rendered: tags, hidden class, faces, dots, logos
  faceActive,    \* indices of the faces of the card that carry class `active`
  dotActive,     \* indices of the pager dots that carry class `active`
  altFace,       \* the card carries class `alt-face`
  idx,           \* `idx` of the swipe handler's closure
  press,         \* <<x0, y0>> of the swipe handler's closure; <<>> when unset
  jsError        \* a handler of the card ended with a TypeError

mainVars == <<pc, sizeIdx, requested, replies, catalog, stubs, zone_slugs, zone_shows,
              futs, exitCode, written, cinemaIdx>>
markerVars == <<now, seen, seen_bookable, seen_soon, steps, lastCall>>
mergerVars == <<today, mpc, missing, task, drained, upserts, cacheAtStart>>
leakVars == <<leakFuts, leaks, leakQueries, prevLeaks>>
traceVars == <<failed, dbAccess>>
pageVars == <<page, cardArgs, cardDom, faceActive, dotActive, altFace, idx, press, jsError>>
runVars == <<run, prevRun, world>>
vars == <<mainVars, shows, markerVars, cache, disk, clockDay, api_key,
          mergerVars, runVars, leakVars, traceVars, pageVars>>

(* ------------------------------ items ---------------------------------- *)

\* A show dict as the catalog (or the single-show endpoint) delivers it:
\* no enrichment key is present yet.
NewItem(slug) ==
  [slug |-> slug,
   omdbRating |-> Absent, omdbVotes |-> Absent, imdbID |-> Absent,
   omdbPoster |-> Absent, rtRating |-> Absent, mcRating |-> Absent,
   runtime |-> Absent, isLeaked |-> Absent]

SlugsOf(items) == {s.slug : s \in items}
ItemOf(items, slug) == CHOOSE s \in items : s.slug = slug

(* --------------------------- fetch_omdb_data --------------------------- *)

\* The production years the model draws from: none, a year, a non-number.
NoYear == ""
Years == {NoYear, "2025", "TBA"}

IsInt(y) == y \in {"2023", "2024", "2025"}
\* int(year)
ParseInt(y) == CASE y = "2023" -> 2023 [] y = "2024" -> 2024 [] y = "2025" -> 2025
\* str(n)
IntToStr(n) == CASE n = 2022 -> "2022" [] n = 2023 -> "2023"
                 [] n = 2024 -> "2024" [] n = 2025 -> "2025"

\* Mutant: the retry goes two years back.
RetryTwoYearsBack(year) == IntToStr(ParseInt(year) - 2)

\* params_retry["y"] = str(int(year) - 1)
RetryYear(year) == IntToStr(ParseInt(year) - 1)

\* r["Value"].split("/")[0]
SplitSlash(v) == IF v = "74/100" THEN "74" ELSE v

\* `x if x not in ("N/A", None) else None`
NotNA(v) == IF Get(v) \notin {NA, None} THEN v ELSE None

\* d.get("imdbID") and d.get("Runtime"): no sentinel test in the source.
RawField(v) == Get(v)

\* The dict returned after a Response == "True" answer d.
FetchResult(d) ==
  [imdbRating |-> NotNA(d.imdbRating),
   imdbVotes  |-> NotNA(d.imdbVotes),
   imdbID     |-> RawField(d.imdbID),
   omdbPoster |-> NotNA(d.Poster),
   rtRating   |-> IF Get(d.RT) \notin {NA, None} THEN d.RT ELSE None,
   mcRating   |-> IF Get(d.MC) \notin {NA, None} THEN SplitSlash(d.MC) ELSE None,
   runtime    |-> RawField(d.Runtime)]

\* `return {}`
EmptyDict ==
  [imdbRating |-> Absent, imdbVotes |-> Absent, imdbID |-> Absent,
   omdbPoster |-> Absent, rtRating |-> Absent, mcRating |-> Absent,
   runtime |-> Absent]

\* Mutant: any answer that is no success asks for the retry.
WantsRetryAnyMiss(year, d) ==
  /\ ~d.exc
  /\ d.Response # "True"
  /\ Truthy(year)

\* The first answer asks for a retry with year - 1.
WantsRetry(year, d) ==
  /\ ~d.exc
  /\ d.Response # "True"
  /\ Truthy(year)
  /\ Get(d.Error) = "Movie not found!"

\* What the lookup returns once answer d is the last one it reads.
ResultOf(d) ==
  IF d.exc THEN EmptyDict
  ELSE IF d.Response # "True" THEN EmptyDict
  ELSE FetchResult(d)

QueuedTask == [st |-> "queued", year |-> NoYear, reqs |-> <<>>, result |-> EmptyDict]


(* ------------------------- statements on movies.db -------------------- *)

\* One statement run on a table by a thread: the main thread, or a worker
\* of one of the three pools.
Access(thread, table, op) == {[thread |-> thread, table |-> table, op |-> op]}

\* A tracker on the main thread: the SELECT, and the INSERT with its commit.
MarkerAccess(table, inserts) ==
  Access("main", table, "read")
    \cup (IF inserts THEN Access("main", table, "write") ELSE {})

\* Lines 501-506: the SELECT of the hydrate loop.
HydrateAccess == Access("main", "omdb_cache", "read")

\* Mutant: the task that made the lookup writes its row itself.
UpsertByWorker == Access("omdb worker", "omdb_cache", "write")

\* Lines 545-555: the INSERT OR REPLACE of the drain loop.
UpsertAccess == Access("main", "omdb_cache", "write")

\* Line 556: _db().commit()
CommitAccess == Access("main", "omdb_cache", "commit")

(* ------------------------ lifecycle marker trackers -------------------- *)

\* The identities the tracker calls of SpecTracker are made for.
TrackedSlugs == {"a", "b"}

\* now.isoformat(timespec="seconds"), read back with fromisoformat: the part
\* of the clock below one second is dropped.
IsoSeconds(t) == t - (t % UnitsPerSecond)

\* A number of hours in clock units.
HoursUnits(h) == h * SecondsPerHour * UnitsPerSecond

\* Mutant: an existing row is replaced.
InsertAlways(tbl, slugs, t) ==
  [s \in DOMAIN tbl \cup slugs |-> IF s \in slugs THEN t ELSE tbl[s]]

\* INSERT INTO <table> VALUES(slug, now) when the slug has no row.
InsertOnce(tbl, slugs, t) ==
  [s \in DOMAIN tbl \cup slugs |-> IF s \in DOMAIN tbl THEN tbl[s] ELSE t]

\* cur.fetchone() of SELECT first_seen ... WHERE slug=?: <<>> stands for None.
SelectFirstSeen(tbl, slug) == IF slug \in DOMAIN tbl THEN <<tbl[slug]>> ELSE <<>>

\* The pairs the trackers return; `elapsed` is hours_ago in clock units.
\* return float('inf'), False
NeverTrue == [inf |-> TRUE, elapsed |-> 0, fresh |-> FALSE]

\* Mutant: the first sighting is reported as not recent.
FirstSightingStale == [inf |-> FALSE, elapsed |-> 0, fresh |-> FALSE]

\* return 0.0, True
FirstSighting == [inf |-> FALSE, elapsed |-> 0, fresh |-> TRUE]

\* Mutant: every tracker compares with the window of the "soon" badge.
WithinSoonWindow(elapsed, hours) == elapsed < HoursUnits(NEW_SOON_HOURS)

\* hours_ago < NEW_..._HOURS
WithinWindow(elapsed, hours) == elapsed < HoursUnits(hours)

\* return hours_ago, hours_ago < NEW_..._HOURS
Aged(t, first, hours) ==
  [inf |-> FALSE, elapsed |-> t - first, fresh |-> WithinWindow(t - first, hours)]

\* Mutant: the stored row is read whatever the predicate is.
TrackerResultAnyPredicate(row, pred, t, hours) ==
  IF row = <<>> THEN (IF pred THEN FirstSighting ELSE NeverTrue)
  ELSE Aged(t, row[1], hours)

\* What a tracker returns, given the row its SELECT found.
TrackerResult(row, pred, t, hours) ==
  IF ~pred THEN NeverTrue
  ELSE IF row = <<>> THEN FirstSighting
  ELSE Aged(t, row[1], hours)

\* The table after the call: a row is inserted on the first true predicate.
TrackerTable(tbl, slug, pred, t) ==
  IF pred THEN InsertOnce(tbl, {slug}, IsoSeconds(t)) ELSE tbl

NoCall == [fn |-> "none", slug |-> "", pred |-> FALSE, at |-> 0, row |-> <<>>,
           ret |-> NeverTrue]

\* The record kept of one tracker call.
CallOf(fn, tbl, slug, pred, hours) ==
  [fn |-> fn, slug |-> slug, pred |-> pred, at |-> now,
   row |-> IF pred THEN SelectFirstSeen(tbl, slug) ELSE <<>>,
   ret |-> TrackerResult(SelectFirstSeen(tbl, slug), pred, now, hours)]

\* register_and_age(slug), lines 320-350.
RegisterAndAge(s) ==
  /\ pc = "trackers" /\ steps < MaxSteps
  /\ steps' = steps + 1
  /\ lastCall' = CallOf("seen", seen, s, TRUE, NEW_SOON_HOURS)
  /\ seen' = TrackerTable(seen, s, TRUE, now)
  /\ dbAccess' = dbAccess \cup (IF TRUE THEN MarkerAccess("seen", s \notin DOMAIN seen) ELSE {})
  /\ UNCHANGED <<now, seen_bookable, seen_soon, mainVars, shows, cache, disk,
                 clockDay, api_key, mergerVars, runVars, leakVars,
                 failed, pageVars>>

\* register_and_age_bookable(slug, is_bookable), lines 352-380.
RegisterAndAgeBookable(s, p) ==
  /\ pc = "trackers" /\ steps < MaxSteps
  /\ steps' = steps + 1
  /\ lastCall' = CallOf("seen_bookable", seen_bookable, s, p, NEW_BOOKABLE_HOURS)
  /\ seen_bookable' = TrackerTable(seen_bookable, s, p, now)
  /\ dbAccess' = dbAccess \cup (IF p THEN MarkerAccess("seen_bookable", s \notin DOMAIN seen_bookable) ELSE {})
  /\ UNCHANGED <<now, seen, seen_soon, mainVars, shows, cache, disk,
                 clockDay, api_key, mergerVars, runVars, leakVars,
                 failed, pageVars>>

\* register_and_age_soon(slug, is_coming_soon), lines 382-407.
RegisterAndAgeSoon(s, p) ==
  /\ pc = "trackers" /\ steps < MaxSteps
  /\ steps' = steps + 1
  /\ lastCall' = CallOf("seen_soon", seen_soon, s, p, NEW_SOON_HOURS)
  /\ seen_soon' = TrackerTable(seen_soon, s, p, now)
  /\ dbAccess' = dbAccess \cup (IF p THEN MarkerAccess("seen_soon", s \notin DOMAIN seen_soon) ELSE {})
  /\ UNCHANGED <<now, seen, seen_bookable, mainVars, shows, cache, disk,
                 clockDay, api_key, mergerVars, runVars, leakVars,
                 failed, pageVars>>

\* The advances of the clock between two calls: a fraction of a second, and
\* the two freshness windows.
Jumps == {1, HoursUnits(NEW_SOON_HOURS), HoursUnits(NEW_BOOKABLE_HOURS)}

\* Time passes between two calls, within a run or between runs.
Tick ==
  /\ pc = "trackers" /\ steps < MaxSteps
  /\ steps' = steps + 1
  /\ \E d \in Jumps : now' = now + d
  /\ UNCHANGED <<seen, seen_bookable, seen_soon, lastCall, mainVars, shows, cache,
                 disk, clockDay, api_key, mergerVars, runVars, leakVars,
                 traceVars, pageVars>>

(* ------------------------------ omdb_cache ----------------------------- *)

\* SELECT ... FROM omdb_cache WHERE slug=? AND yyyymmdd=?
SelectRows(tbl, slug, day) == {r \in tbl : r.slug = slug /\ r.yyyymmdd = day}
\* Mutant: a row without any data does not count as a cache hit.
HasRowWithData(tbl, slug, day) ==
  \E r \in SelectRows(tbl, slug, day) : \E k \in CardKeys : r[k] # None
HasRow(tbl, slug, day) == SelectRows(tbl, slug, day) # {}
FetchOne(tbl, slug, day) == CHOOSE r \in SelectRows(tbl, slug, day) : TRUE

\* Mutant: a row without any data is not stored.
InsertUnlessEmpty(tbl, row) ==
  IF \A k \in CardKeys : row[k] = None THEN tbl
  ELSE {r \in tbl : ~(r.slug = row.slug /\ r.yyyymmdd = row.yyyymmdd)} \cup {row}

\* Mutant: a plain INSERT into a table without the primary key.
InsertPlain(tbl, row) == tbl \cup {row}

\* INSERT OR REPLACE under PRIMARY KEY(slug, yyyymmdd)
InsertOrReplace(tbl, row) ==
  {r \in tbl : ~(r.slug = row.slug /\ r.yyyymmdd = row.yyyymmdd)} \cup {row}

\* The tuple of values bound to the INSERT: s.get(k) for every column.
RowOf(s, day) ==
  [slug |-> s.slug, yyyymmdd |-> day,
   omdbRating |-> Get(s.omdbRating), omdbVotes |-> Get(s.omdbVotes),
   imdbID |-> Get(s.imdbID), omdbPoster |-> Get(s.omdbPoster),
   rtRating |-> Get(s.rtRating), mcRating |-> Get(s.mcRating),
   runtime |-> Get(s.runtime)]

(* --------------------------- enrich_with_omdb -------------------------- *)

\* s.update(dict(zip(keys, row)))
Hydrate(s, row) ==
  [s EXCEPT !.omdbRating = row.omdbRating, !.omdbVotes = row.omdbVotes,
            !.imdbID = row.imdbID, !.omdbPoster = row.omdbPoster,
            !.rtRating = row.rtRating, !.mcRating = row.mcRating,
            !.runtime = row.runtime]

\* Mutant: without a key the missing items are left as they are.
SkipDefaults(s) == s

\* for k in (...): s.setdefault(k, None)
SetDefault(v) == IF v = Absent THEN None ELSE v
SetDefaults(s) ==
  [s EXCEPT !.omdbRating = SetDefault(@), !.omdbVotes = SetDefault(@),
            !.imdbID = SetDefault(@), !.omdbPoster = SetDefault(@),
            !.rtRating = SetDefault(@), !.mcRating = SetDefault(@),
            !.runtime = SetDefault(@)]

\* Mutant: imdbRating and imdbVotes are not renamed to the card's keys.
CopyUnrenamed(s, data) ==
  [s EXCEPT !.imdbID = Get(data.imdbID), !.omdbPoster = Get(data.omdbPoster),
            !.rtRating = Get(data.rtRating), !.mcRating = Get(data.mcRating),
            !.runtime = Get(data.runtime)]

\* for k in (...): s[target] = data.get(k)
CopyIntoCard(s, data) ==
  [s EXCEPT !.omdbRating = Get(data.imdbRating), !.omdbVotes = Get(data.imdbVotes),
            !.imdbID = Get(data.imdbID), !.omdbPoster = Get(data.omdbPoster),
            !.rtRating = Get(data.rtRating), !.mcRating = Get(data.mcRating),
            !.runtime = Get(data.runtime)]

\* Mutant: the cache is not consulted, every item is looked up.
MissingAll(items, tbl, day) == SlugsOf(items)

\* The slugs the hydrate loop appends to `missing`.
MissingOf(items, tbl, day) == {s.slug : s \in {i \in items : ~HasRow(tbl, i.slug, day)}}

\* The items after the hydrate loop.
Hydrated(items, tbl, day) ==
  {IF HasRow(tbl, s.slug, day) THEN Hydrate(s, FetchOne(tbl, s.slug, day)) ELSE s
     : s \in items}

\* Lines 494-532: hydrate from the cache, then return (nothing missing, or
\* no key) or submit one fetch_omdb_data task per missing item.
EnrichStart ==
  /\ pc = "enrich" /\ mpc = "idle"
  /\ today' = clockDay
  /\ cacheAtStart' = cache
  /\ missing' = MissingOf(shows, cache, clockDay)
  /\ drained' = {}
  /\ upserts' = [s \in Slugs \cup SlugsOf(shows) |-> 0]
  /\ dbAccess' = dbAccess \cup (IF shows = {} THEN {} ELSE HydrateAccess)
  /\ IF missing' = {}
       THEN /\ shows' = Hydrated(shows, cache, clockDay)
            /\ task' = [s \in {} |-> QueuedTask]
            /\ mpc' = "returned"
     ELSE IF ~api_key
       THEN /\ shows' = {IF s.slug \in missing' THEN SetDefaults(s) ELSE s
                           : s \in Hydrated(shows, cache, clockDay)}
            /\ task' = [s \in {} |-> QueuedTask]
            /\ mpc' = "returned"
     ELSE /\ shows' = Hydrated(shows, cache, clockDay)
          /\ task' = [s \in missing' |-> QueuedTask]
          /\ mpc' = "pool"
  /\ UNCHANGED <<mainVars, markerVars, cache, disk, clockDay, api_key, runVars, leakVars,
                 failed, pageVars>>

PoolOpen == mpc \in {"pool", "unwinding"}
Running == {s \in DOMAIN task : task[s].st \in {"running", "retry"}}

\* Mutant: the executor starts a thread for every submitted task.
AlwaysIdleWorker(running) == TRUE

\* Line 531: ThreadPoolExecutor(max_workers=MAX_OMDB_WORKERS) runs a task
\* only on one of its MAX_OMDB_WORKERS threads.
HasIdleWorker(running) == Cardinality(running) < MAX_OMDB_WORKERS

\* Lines 411-447: a worker picks the task up and derives title and year from
\* the show dict; a title or releaseAt[0] that is no string raises here,
\* outside the try block.
TaskStart(s) ==
  /\ PoolOpen
  /\ s \in DOMAIN task /\ task[s].st = "queued"
  /\ HasIdleWorker(Running)
  /\ \E r \in world.raises[s] :
       IF r THEN task' = [task EXCEPT ![s].st = "raised"]
       ELSE \E y \in world.years[s] :
              task' = [task EXCEPT ![s].st = "running", ![s].year = y]
  /\ UNCHANGED <<mainVars, shows, markerVars, cache, disk, clockDay, api_key,
                 today, mpc, missing, drained, upserts, cacheAtStart, runVars, leakVars,
                 traceVars, pageVars>>

\* The `y` parameter of the first request: present only for a truthy year.
YParam(year) == IF Truthy(year) THEN year ELSE Absent

\* Lines 449-463, first get_json: answer d (or a raise) for the given year.
TaskRequest(s) ==
  /\ PoolOpen
  /\ s \in DOMAIN task /\ task[s].st = "running"
  /\ \E d \in world.first[s] :
       LET sent == Append(task[s].reqs, YParam(task[s].year)) IN
       IF WantsRetry(task[s].year, d)
         THEN IF IsInt(task[s].year)
                THEN task' = [task EXCEPT ![s].st = "retry", ![s].reqs = sent]
                ELSE \* int(year) raises ValueError inside the try block
                     task' = [task EXCEPT ![s].st = "done", ![s].reqs = sent,
                                          ![s].result = EmptyDict]
         ELSE task' = [task EXCEPT ![s].st = "done", ![s].reqs = sent,
                                   ![s].result = ResultOf(d)]
  /\ UNCHANGED <<mainVars, shows, markerVars, cache, disk, clockDay, api_key,
                 today, mpc, missing, drained, upserts, cacheAtStart, runVars, leakVars,
                 traceVars, pageVars>>

\* Lines 456-463, second get_json with year - 1; its answer is final.
TaskRetry(s) ==
  /\ PoolOpen
  /\ s \in DOMAIN task /\ task[s].st = "retry"
  /\ \E d \in world.retry[s] :
       task' = [task EXCEPT ![s].st = "done",
                            ![s].reqs = Append(@, RetryYear(task[s].year)),
                            ![s].result = ResultOf(d)]
  /\ UNCHANGED <<mainVars, shows, markerVars, cache, disk, clockDay, api_key,
                 today, mpc, missing, drained, upserts, cacheAtStart, runVars, leakVars,
                 traceVars, pageVars>>

\* Mutant: the drain loop does not wait for the future it takes.
DrainUnfinished(s) ==
  /\ mpc = "pool"
  /\ s \in DOMAIN task /\ s \notin drained
  /\ LET card == CopyIntoCard(ItemOf(shows, s), task[s].result) IN
       /\ shows' = (shows \ {ItemOf(shows, s)}) \cup {card}
       /\ cache' = InsertOrReplace(cache, RowOf(card, today))
  /\ drained' = drained \cup {s}
  /\ upserts' = [upserts EXCEPT ![s] = @ + 1]
  /\ dbAccess' = dbAccess \cup UpsertAccess
  /\ UNCHANGED <<mainVars, markerVars, disk, clockDay, api_key,
                 today, mpc, missing, task, cacheAtStart, runVars, leakVars,
                 failed, pageVars>>

\* Lines 533-555: the drain loop takes a completed future, copies its data
\* into the card and upserts the (slug, today) row.
Drain(s) ==
  /\ mpc = "pool"
  /\ s \in DOMAIN task /\ s \notin drained /\ task[s].st = "done"
  /\ LET card == CopyIntoCard(ItemOf(shows, s), task[s].result) IN
       /\ shows' = (shows \ {ItemOf(shows, s)}) \cup {card}
       /\ cache' = InsertOrReplace(cache, RowOf(card, today))
  /\ drained' = drained \cup {s}
  /\ upserts' = [upserts EXCEPT ![s] = @ + 1]
  /\ dbAccess' = dbAccess \cup UpsertAccess
  /\ UNCHANGED <<mainVars, markerVars, disk, clockDay, api_key,
                 today, mpc, missing, task, cacheAtStart, runVars, leakVars,
                 failed, pageVars>>

\* Line 535: fut.result() re-raises the exception of a task that raised; the
\* loop is left and the `with` block waits for the remaining tasks.
DrainRaise(s) ==
  /\ mpc = "pool"
  /\ s \in DOMAIN task /\ s \notin drained /\ task[s].st = "raised"
  /\ mpc' = "unwinding"
  /\ UNCHANGED <<mainVars, shows, markerVars, cache, disk, clockDay, api_key,
                 today, missing, task, drained, upserts, cacheAtStart, runVars, leakVars,
                 traceVars, pageVars>>

AllTasksOver == \A s \in DOMAIN task : task[s].st \in {"done", "raised"}

\* Mutant: the function returns without the commit.
EnrichReturnNoCommit ==
  /\ mpc = "pool" /\ drained = DOMAIN task
  /\ mpc' = "returned"
  /\ UNCHANGED <<mainVars, shows, markerVars, cache, disk, clockDay, api_key,
                 today, missing, task, drained, upserts, cacheAtStart, runVars, leakVars,
                 traceVars, pageVars>>

\* Line 556: every future drained, the pool shut down: commit and return.
EnrichReturn ==
  /\ mpc = "pool" /\ drained = DOMAIN task
  /\ disk' = cache
  /\ dbAccess' = dbAccess \cup CommitAccess
  /\ mpc' = "returned"
  /\ UNCHANGED <<mainVars, shows, markerVars, cache, clockDay, api_key,
                 today, missing, task, drained, upserts, cacheAtStart, runVars, leakVars,
                 failed, pageVars>>

\* The `with` block has waited for every task; the exception leaves
\* enrich_with_omdb before the commit.
EnrichRaise ==
  /\ mpc = "unwinding" /\ AllTasksOver
  /\ mpc' = "raised"
  /\ UNCHANGED <<mainVars, shows, markerVars, cache, disk, clockDay, api_key,
                 today, missing, task, drained, upserts, cacheAtStart, runVars, leakVars,
                 traceVars, pageVars>>


(* ------------------- the merger run after run (SpecMerger) -------------- *)

Min(a, b) == IF a < b THEN a ELSE b
\* dt.date.today().isoformat() on the day of the runs, and the day before.
Today == "2025-05-13"
Yesterday == "2025-05-12"

\* The batch of the first n items of the catalog.
Batch(n) == {NewItem(SlugSeq[i]) : i \in 1..n}

\* Rows an earlier run of this program can have left for an item: the
\* snapshot of a hit, of a hit full of sentinels, and of a failed lookup.
RowsFor(slug, day) ==
  {RowOf(CopyIntoCard(NewItem(slug), r), day)
     : r \in {FetchResult(HitFull), FetchResult(HitNA), EmptyDict}}

\* Tables with at most one row per item: none, one of today, one of yesterday.
StoredTables(slugs) ==
  LET Choices(s) == {{}} \cup {{r} : r \in RowsFor(s, Today)}
                         \cup {{RowOf(CopyIntoCard(NewItem(s), FetchResult(HitFull)), Yesterday)}}
      Pick == {f \in [slugs -> UNION {Choices(s) : s \in slugs}]
                 : \A s \in slugs : f[s] \in Choices(s)}
  IN  {UNION {f[s] : s \in slugs} : f \in Pick}

IdleMerger ==
  /\ today = None /\ mpc = "idle" /\ missing = {} /\ drained = {}
  /\ task = [s \in {} |-> QueuedTask]
  /\ upserts = [s \in Slugs |-> 0]
  /\ cacheAtStart = {}

NoLeakStage ==
  /\ leakFuts = {} /\ leaks = [k \in {} |-> FALSE]
  /\ leakQueries = [s \in Slugs |-> <<>>]
  /\ prevLeaks = [k \in {} |-> FALSE]

\* The process has just started: no statement has run on movies.db.
NoTrace == failed = {} /\ dbAccess = {}

\* No card arguments and no card.
NoArgs == [zoneNext24 |-> 0, bookable |-> FALSE, isComingSoon |-> FALSE, extras |-> {},
           logos |-> 0, blocks |-> 0]
NoCard == [tags |-> <<>>, hidden |-> FALSE, faces |-> 0, dots |-> 0, logos |-> 0]

\* build_html has not been called.
NoPage ==
  /\ page = "none" /\ cardArgs = NoArgs /\ cardDom = NoCard
  /\ faceActive = {} /\ dotActive = {} /\ altFace = FALSE
  /\ idx = 0 /\ press = <<>> /\ jsError = FALSE

FreshMarkers ==
  /\ now = 0 /\ steps = 0 /\ lastCall = NoCall
  /\ seen = [s \in {} |-> 0]
  /\ seen_bookable = [s \in {} |-> 0]
  /\ seen_soon = [s \in {} |-> 0]

\* main() has reached line 1993 with a batch of items; the cache holds what
\* earlier runs left.
InitMerger ==
  /\ pc = "enrich" /\ sizeIdx = 1 /\ requested = <<>> /\ replies = <<>>
  /\ catalog = {} /\ stubs = {} /\ zone_slugs = {} /\ zone_shows = {}
  /\ futs = {} /\ exitCode = None /\ written = 0 /\ cinemaIdx = 1
  /\ FreshMarkers
  /\ \E n \in 1..Min(MaxBatch, Len(SlugSeq)) :
       /\ shows = Batch(n)
       /\ cache \in StoredTables(SlugsOf(Batch(n)))
  /\ disk = cache
  /\ clockDay = Today
  /\ api_key \in BOOLEAN
  /\ IdleMerger
  /\ run = 1 /\ prevRun = [how |-> "none", drained |-> {}]
  /\ world = MergerWorld
  /\ NoLeakStage
  /\ NoTrace
  /\ NoPage

\* The program is started again on the same day with the same items and the
\* same configuration: fresh show dicts, and the cache as committed.
NewRun ==
  /\ mpc \in {"returned", "raised"}
  /\ run < MaxRuns
  /\ run' = run + 1
  /\ prevRun' = [how |-> mpc, drained |-> drained]
  /\ shows' = {NewItem(s.slug) : s \in shows}
  /\ cache' = disk
  /\ today' = None /\ mpc' = "idle" /\ missing' = {} /\ drained' = {}
  /\ task' = [s \in {} |-> QueuedTask]
  /\ upserts' = [s \in Slugs |-> 0]
  /\ cacheAtStart' = {}
  /\ UNCHANGED <<mainVars, markerVars, disk, clockDay, api_key, world, leakVars,
                 traceVars, pageVars>>

NextMerger ==
  \/ EnrichStart
  \/ \E s \in Slugs : TaskStart(s)
  \/ \E s \in Slugs : TaskRequest(s)
  \/ \E s \in Slugs : TaskRetry(s)
  \/ \E s \in Slugs : Drain(s)
  \/ \E s \in Slugs : DrainRaise(s)
  \/ EnrichReturn
  \/ EnrichRaise
  \/ NewRun

SpecMerger == InitMerger /\ [][NextMerger]_vars

(* ------------- the statements on omdb_cache in any order (SpecStore) ---- *)

\* Upserts of one call of enrich_with_omdb for one identity in SpecStore.
MaxUpserts == 2

\* What the drain loop may bind to the INSERT: the card of a hit and the
\* card of a failed lookup.
StoreAnswers == {FetchResult(HitFull), EmptyDict}

\* Line 494: enrich_with_omdb is entered and fixes `today`.
StoreCall ==
  /\ mpc = "idle"
  /\ today' = clockDay
  /\ mpc' = "pool"
  /\ upserts' = [s \in Slugs |-> 0]
  /\ UNCHANGED <<mainVars, shows, markerVars, cache, disk, clockDay, api_key,
                 missing, task, drained, cacheAtStart, runVars, leakVars, traceVars, pageVars>>

\* Lines 545-555: the INSERT OR REPLACE, for any identity and any card.
StoreUpsert(s, data) ==
  /\ mpc = "pool"
  /\ upserts[s] < MaxUpserts
  /\ cache' = InsertOrReplace(cache, RowOf(CopyIntoCard(NewItem(s), data), today))
  /\ upserts' = [upserts EXCEPT ![s] = @ + 1]
  /\ UNCHANGED <<mainVars, shows, markerVars, disk, clockDay, api_key,
                 today, mpc, missing, task, drained, cacheAtStart, runVars, leakVars,
                 traceVars, pageVars>>

\* Line 556: the commit.
StoreCommit ==
  /\ mpc = "pool"
  /\ disk' = cache
  /\ mpc' = "returned"
  /\ UNCHANGED <<mainVars, shows, markerVars, cache, clockDay, api_key,
                 today, missing, task, drained, upserts, cacheAtStart, runVars, leakVars,
                 traceVars, pageVars>>

\* Line 535: an exception leaves the function before the commit.
StoreRaise ==
  /\ mpc = "pool"
  /\ mpc' = "raised"
  /\ UNCHANGED <<mainVars, shows, markerVars, cache, disk, clockDay, api_key,
                 today, missing, task, drained, upserts, cacheAtStart, runVars, leakVars,
                 traceVars, pageVars>>

\* The script is started again, on the same day or on the next one: the new
\* connection sees the table as committed.
StoreNextRun ==
  /\ mpc \in {"returned", "raised"}
  /\ cache' = disk
  /\ clockDay' \in {clockDay, Today}
  /\ today' = None /\ mpc' = "idle"
  /\ UNCHANGED <<mainVars, shows, markerVars, disk, api_key,
                 missing, task, drained, upserts, cacheAtStart, runVars, leakVars,
                 traceVars, pageVars>>

\* A fresh movies.db on the day before.
InitStore ==
  /\ pc = "enrich" /\ sizeIdx = 1 /\ requested = <<>> /\ replies = <<>>
  /\ catalog = {} /\ stubs = {} /\ zone_slugs = {} /\ zone_shows = {}
  /\ futs = {} /\ exitCode = None /\ written = 0 /\ cinemaIdx = 1
  /\ FreshMarkers
  /\ shows = {}
  /\ cache = {} /\ disk = {}
  /\ clockDay = Yesterday
  /\ api_key = TRUE
  /\ IdleMerger
  /\ run = 1 /\ prevRun = [how |-> "none", drained |-> {}]
  /\ world = MergerWorld
  /\ NoLeakStage
  /\ NoTrace
  /\ NoPage

NextStore ==
  \/ StoreCall
  \/ \E s \in TrackedSlugs, data \in StoreAnswers : StoreUpsert(s, data)
  \/ StoreCommit
  \/ StoreRaise
  \/ StoreNextRun

SpecStore == InitStore /\ [][NextStore]_vars

(* ------------- a batch larger than the pool (SpecPool) ------------------ *)

\* Items of the batch that miss the cache in SpecPool.
PoolTasks == 11

PoolNames == <<"p01", "p02", "p03", "p04", "p05", "p06", "p07", "p08", "p09", "p10",
               "p11", "p12">>
\* The items that miss the cache, in the order of the list, and one item
\* whose row of today is in the cache.
PoolSeq == SubSeq(PoolNames, 1, PoolTasks)
PoolSlugs == {PoolSeq[i] : i \in 1..Len(PoolSeq)}
CachedSlug == "hit"

\* OMDb knows every other title of the batch; no show dict carries a year.
PoolWorld ==
  [first  |-> [s \in PoolSlugs \cup {CachedSlug} |->
                 IF \E i \in 1..Len(PoolSeq) : PoolSeq[i] = s /\ i % 2 = 1
                   THEN {HitFull} ELSE {NotFound}],
   retry  |-> [s \in PoolSlugs \cup {CachedSlug} |-> {NotFound}],
   years  |-> [s \in PoolSlugs \cup {CachedSlug} |-> {""}],
   raises |-> [s \in PoolSlugs \cup {CachedSlug} |-> {FALSE}],
   catalogs |-> {PoolSlugs \cup {CachedSlug}},
   zones  |-> {PoolSlugs \cup {CachedSlug}},
   bookable |-> {},
   soon   |-> {}]

\* The work queue of the executor is first in, first out: a thread takes
\* the task submitted earliest (line 532 submits in the order of `missing`).
FifoNext(s) ==
  /\ s \in DOMAIN task
  /\ \A i \in 1..Len(PoolSeq), j \in 1..Len(PoolSeq) :
       (PoolSeq[i] = s /\ j < i) => task[PoolSeq[j]].st # "queued"

PoolTaskStart(s) == FifoNext(s) /\ TaskStart(s)

\* Line 533: as_completed hands the futures to the drain loop in the order
\* in which they complete.  In SpecPool the main thread is the faster side:
\* it has drained a completed future before the next answer arrives, so
\* every order of completion is an order of the drain loop and no other is.
NoneWaiting == \A t \in DOMAIN task : task[t].st = "done" => t \in drained

PoolTaskRequest(s) == NoneWaiting /\ TaskRequest(s)

\* main() has reached line 1993 with PoolTasks + 1 items and a key.
InitPool ==
  /\ pc = "enrich" /\ sizeIdx = 1 /\ requested = <<>> /\ replies = <<>>
  /\ catalog = {} /\ stubs = {} /\ zone_slugs = {} /\ zone_shows = {}
  /\ futs = {} /\ exitCode = None /\ written = 0 /\ cinemaIdx = 1
  /\ FreshMarkers
  /\ shows = {NewItem(s) : s \in PoolSlugs \cup {CachedSlug}}
  /\ cache = {RowOf(CopyIntoCard(NewItem(CachedSlug), FetchResult(HitFull)), Today)}
  /\ disk = cache
  /\ clockDay = Today
  /\ api_key = TRUE
  /\ IdleMerger
  /\ run = 1 /\ prevRun = [how |-> "none", drained |-> {}]
  /\ world = PoolWorld
  /\ NoLeakStage
  /\ NoTrace
  /\ NoPage

NextPool ==
  \/ EnrichStart
  \/ \E s \in PoolSlugs : PoolTaskStart(s)
  \/ \E s \in PoolSlugs : PoolTaskRequest(s)
  \/ \E s \in PoolSlugs : Drain(s)
  \/ EnrichReturn

SpecPool == InitPool /\ [][NextPool]_vars

(* ----------------- one lookup against a fixed provider (SpecLookup) ----- *)

\* The worlds in which OMDb gives one fixed answer to the first request and
\* one to the retry, the show dict carries one fixed year, and the
\* derivation of title and year raises or does not.
LookupWorlds ==
  {[AnyWorld EXCEPT !.first = [s \in Slugs |-> {d1}],
                    !.retry = [s \in Slugs |-> {d2}],
                    !.years = [s \in Slugs |-> {y}],
                    !.raises = [s \in Slugs |-> {r}]]
     : d1 \in OmdbOutcomes, d2 \in OmdbOutcomes, y \in Years, r \in BOOLEAN}

\* enrich_with_omdb is called with a key, one item and an empty cache.
InitLookup ==
  /\ pc = "enrich" /\ sizeIdx = 1 /\ requested = <<>> /\ replies = <<>>
  /\ catalog = {} /\ stubs = {} /\ zone_slugs = {} /\ zone_shows = {}
  /\ futs = {} /\ exitCode = None /\ written = 0 /\ cinemaIdx = 1
  /\ FreshMarkers
  /\ shows = Batch(1)
  /\ cache = {} /\ disk = {}
  /\ clockDay = Today
  /\ api_key = TRUE
  /\ IdleMerger
  /\ run = 1 /\ prevRun = [how |-> "none", drained |-> {}]
  /\ world \in LookupWorlds
  /\ NoLeakStage
  /\ NoTrace
  /\ NoPage

SpecLookup == InitLookup /\ [][NextMerger]_vars


(* ------------------- the trackers call after call (SpecTracker) --------- *)

\* A fresh movies.db; the trackers are called in any order, for any
\* identity and predicate, at any later time.
InitTracker ==
  /\ pc = "trackers" /\ sizeIdx = 1 /\ requested = <<>> /\ replies = <<>>
  /\ catalog = {} /\ stubs = {} /\ zone_slugs = {} /\ zone_shows = {}
  /\ futs = {} /\ exitCode = None /\ written = 0 /\ cinemaIdx = 1
  /\ FreshMarkers
  /\ shows = {}
  /\ cache = {} /\ disk = {}
  /\ clockDay = Today
  /\ api_key = FALSE
  /\ IdleMerger
  /\ run = 1 /\ prevRun = [how |-> "none", drained |-> {}]
  /\ world = KnownWorld
  /\ NoLeakStage
  /\ NoTrace
  /\ NoPage

NextTracker ==
  \/ \E s \in TrackedSlugs : RegisterAndAge(s)
  \/ \E s \in TrackedSlugs, p \in BOOLEAN : RegisterAndAgeBookable(s, p)
  \/ \E s \in TrackedSlugs, p \in BOOLEAN : RegisterAndAgeSoon(s, p)
  \/ Tick

SpecTracker == InitTracker /\ [][NextTracker]_vars

(* ------------------------------- main() -------------------------------- *)

FAV_CINEMAS == <<"pathe-ypenburg", "pathe-spuimarkt", "pathe-buitenhof",
                 "pathe-scheveningen">>

\* What a get_json of a listing may deliver: an exception, or a JSON body
\* whose "shows" hold the given slugs.
Listings(sets) == {[exc |-> TRUE, slugs |-> {}]}
                    \cup {[exc |-> FALSE, slugs |-> S] : S \in sets}

\* An uncaught exception ends the interpreter with status 1.
Crash ==
  /\ pc' = "crashed"
  /\ exitCode' = 1

\* Mutant: any answer that is no exception is returned.
AcceptsEmpty(resp) == ~resp.exc

\* Lines 115-119: get_json did not raise and `if shows:` holds.
Accepts(resp) == ~resp.exc /\ resp.slugs # {}

\* fetch_shows, one turn of the loop over PAGE_SIZES (lines 113-121).
FetchShowsRequest ==
  /\ pc = "fetch_shows"
  /\ sizeIdx <= Len(PAGE_SIZES)
  /\ requested' = Append(requested, PAGE_SIZES[sizeIdx])
  /\ \E resp \in Listings(world.catalogs) :
       /\ replies' = Append(replies, resp)
       /\ IF Accepts(resp)
            THEN /\ shows' = {NewItem(s) : s \in resp.slugs}
                 /\ catalog' = resp.slugs
                 /\ pc' = "zone_filter"
                 /\ UNCHANGED sizeIdx
            ELSE /\ sizeIdx' = sizeIdx + 1
                 /\ UNCHANGED <<shows, catalog, pc>>
  /\ UNCHANGED <<stubs, zone_slugs, zone_shows, futs, exitCode, written, cinemaIdx,
                 markerVars, cache, disk, clockDay, api_key, mergerVars, runVars,
                 leakVars,
                 traceVars, pageVars>>

\* Mutant: the loop falls through and an empty list is returned.
FetchShowsReturnsEmpty ==
  /\ pc = "fetch_shows"
  /\ sizeIdx > Len(PAGE_SIZES)
  /\ pc' = "zone_filter"
  /\ UNCHANGED <<sizeIdx, requested, replies, catalog, stubs, zone_slugs, zone_shows,
                 futs, exitCode, written, cinemaIdx, shows, markerVars, cache, disk,
                 clockDay, api_key, mergerVars, runVars, leakVars,
                 traceVars, pageVars>>

\* Mutant: a placeholder page is written before the exit.
FetchShowsExitWritesPage ==
  /\ pc = "fetch_shows"
  /\ sizeIdx > Len(PAGE_SIZES)
  /\ pc' = "exited"
  /\ exitCode' = 1
  /\ written' = written + 1
  /\ UNCHANGED <<sizeIdx, requested, replies, catalog, stubs, zone_slugs, zone_shows,
                 futs, cinemaIdx, shows, markerVars, cache, disk, clockDay,
                 api_key, mergerVars, runVars, leakVars,
                 traceVars, pageVars>>

\* fetch_shows, after the loop (lines 122-123): sys.exit(1).
FetchShowsExit ==
  /\ pc = "fetch_shows"
  /\ sizeIdx > Len(PAGE_SIZES)
  /\ pc' = "exited"
  /\ exitCode' = 1
  /\ UNCHANGED <<sizeIdx, requested, replies, catalog, stubs, zone_slugs, zone_shows, futs,
                 written, cinemaIdx, shows, markerVars, cache, disk, clockDay,
                 api_key, mergerVars, runVars, leakVars,
                 traceVars, pageVars>>

\* Mutant: the filter keeps every item.
ZoneUnfiltered(items, zone) == items

\* shows = [s for s in shows if s.get("slug") in zone_slugs]
ZoneFiltered(items, zone) == {s \in items : s.slug \in zone}

\* Lines 1916-1918: fetch_zone_slugs and the zone filter.
ZoneFilter ==
  /\ pc = "zone_filter"
  /\ \E resp \in Listings(world.zones) :
       IF resp.exc
         THEN Crash /\ UNCHANGED <<zone_slugs, shows>>
         ELSE /\ zone_slugs' = resp.slugs
              /\ shows' = ZoneFiltered(shows, resp.slugs)
              /\ pc' = "zone_merge"
              /\ UNCHANGED exitCode
  /\ UNCHANGED <<sizeIdx, requested, replies, catalog, stubs, zone_shows, futs, written,
                 cinemaIdx, markerVars, cache, disk, clockDay, api_key,
                 mergerVars, runVars, leakVars,
                 traceVars, pageVars>>

\* slug_to_obj: the filtered items, plus a None entry per other zone slug.
SlugToObj(items, zone) == SlugsOf(items) \cup zone

\* Lines 1921-1953: fetch_zone_shows, the merge of the zone metadata (which
\* leaves every modelled key alone), and the submission of one
\* enrich_or_fetch task per entry of slug_to_obj; `shows` is rebuilt.
ZoneMerge ==
  /\ pc = "zone_merge"
  /\ \E resp \in Listings(world.zones) :
       IF resp.exc
         THEN Crash /\ UNCHANGED <<zone_shows, futs, shows, stubs, failed>>
         ELSE /\ zone_shows' = resp.slugs
              /\ futs' = SlugToObj(shows, resp.slugs)
              /\ stubs' = resp.slugs \ SlugsOf(shows)
              /\ failed' = {}
              /\ shows' = {}
              /\ pc' = "single_show"
              /\ UNCHANGED exitCode
  /\ UNCHANGED <<sizeIdx, requested, replies, catalog, zone_slugs, written, cinemaIdx,
                 markerVars, cache, disk, clockDay, api_key, mergerVars, runVars,
                 leakVars,
                 dbAccess, pageVars>>

\* dict.update: every key of rec is set in s.
Update(s, rec) ==
  [k \in DOMAIN s \cup DOMAIN rec |-> IF k \in DOMAIN rec THEN rec[k] ELSE s[k]]

\* Mutant: the zone stores its records under a slug other than their own.
ZoneRecordOfFirst(slug) == [slug |-> SlugSeq[1]]

\* Line 194: the zone record kept under key `slug` is the one whose "slug"
\* is that key; none of its other keys is a key of the model's items.
ZoneRecord(slug) == [slug |-> slug]

\* Lines 1922-1925: s.update(zone_shows[slug]) for an item of the zone.
ZoneMerged(s, zone) == IF s.slug \in zone THEN Update(s, ZoneRecord(s.slug)) ELSE s

\* The answer of /api/show/{slug}, as far as the model's keys go.
SingleRecord(slug) == [slug |-> slug]

\* Lines 242-248: the keys _merge_single_record copies from the answer.
Wanted == {"releaseAt", "duration", "posterPath", "originalTitle", "contentRating",
           "tags"}

\* Lines 223-250: orig[k] = full.get(k, orig.get(k)) for the wanted keys;
\* every other key of orig, its slug included, is left alone.
MergeSingleRecord(orig, full) ==
  [k \in DOMAIN orig |->
     IF k \notin Wanted THEN orig[k]
     ELSE IF k \in DOMAIN full THEN full[k] ELSE orig[k]]

\* The dict enrich_or_fetch returns for key s of slug_to_obj: the item of
\* the list after the zone merge and the single-show merge, or for a stub
\* the merged answer of the single-show endpoint.
RecordOf(s, existing, zone) ==
  IF existing THEN MergeSingleRecord(ZoneMerged(NewItem(s), zone), SingleRecord(s))
  ELSE MergeSingleRecord(NewItem(s), SingleRecord(s))

\* What enrich_or_fetch may meet: a record with a title, a record without
\* one, or an exception in the fetch or the merge.
SingleOutcomes == {"titled", "untitled", "error"}

\* enrich_or_fetch(slug, existing) returns a record (TRUE) or None (FALSE).
EnrichOrFetch(existing, outcome) ==
  IF outcome = "error" THEN FALSE
  ELSE IF existing THEN TRUE
  ELSE outcome = "titled"

\* Lines 1954-1957: one future of the single-show stage completes and is
\* drained; a None result is not appended.
SingleShowDone(s) ==
  /\ pc = "single_show"
  /\ s \in futs
  /\ futs' = futs \ {s}
  /\ \E o \in SingleOutcomes :
       IF EnrichOrFetch(s \notin stubs, o)
         THEN /\ shows' = shows \cup {RecordOf(s, s \notin stubs, zone_shows)}
              /\ UNCHANGED failed
         ELSE failed' = failed \cup {s} /\ UNCHANGED shows
  /\ UNCHANGED <<pc, sizeIdx, requested, replies, catalog, stubs, zone_slugs, zone_shows,
                 exitCode, written, cinemaIdx, markerVars, cache, disk, clockDay,
                 api_key, mergerVars, runVars, leakVars,
                 dbAccess, pageVars>>

\* Lines 1960-1963: register_and_age for every item.  The locals of the
\* earlier stages are not read again.
RegisterStage ==
  /\ pc = "single_show" /\ futs = {}
  /\ seen' = InsertOnce(seen, SlugsOf(shows), IsoSeconds(now))
  /\ dbAccess' = dbAccess \cup (IF shows = {} THEN {}
                                 ELSE MarkerAccess("seen", ~(SlugsOf(shows) \subseteq DOMAIN seen)))
  /\ pc' = "zone_data"
  /\ catalog' = {} /\ stubs' = {} /\ zone_slugs' = {} /\ zone_shows' = {}
  /\ UNCHANGED <<sizeIdx, requested, replies, futs,
                 exitCode, written, cinemaIdx, shows, now, seen_bookable, seen_soon,
                 steps, lastCall,
                 cache, disk, clockDay, api_key, mergerVars, runVars, leakVars,
                 failed, pageVars>>

\* Lines 1966-1981: fetch_zone_data, then register_and_age_bookable and
\* register_and_age_soon for every item, with the flags of the zone data
\* and of the show dict.
TrackStage ==
  /\ pc = "zone_data"
  /\ \E ok \in BOOLEAN :
       IF ~ok
         THEN Crash /\ UNCHANGED <<seen_bookable, seen_soon, dbAccess>>
         ELSE /\ seen_bookable' =
                   InsertOnce(seen_bookable, SlugsOf(shows) \cap world.bookable,
                              IsoSeconds(now))
              /\ seen_soon' =
                   InsertOnce(seen_soon, SlugsOf(shows) \cap world.soon, IsoSeconds(now))
              /\ dbAccess' = dbAccess
                   \cup (IF SlugsOf(shows) \cap world.bookable = {} THEN {}
                         ELSE MarkerAccess("seen_bookable",
                                ~(SlugsOf(shows) \cap world.bookable \subseteq DOMAIN seen_bookable)))
                   \cup (IF SlugsOf(shows) \cap world.soon = {} THEN {}
                         ELSE MarkerAccess("seen_soon",
                                ~(SlugsOf(shows) \cap world.soon \subseteq DOMAIN seen_soon)))
              /\ pc' = "cinemas"
              /\ UNCHANGED exitCode
  /\ UNCHANGED <<sizeIdx, requested, replies, catalog, stubs, zone_slugs, zone_shows, futs,
                 written, cinemaIdx, shows, now, seen, steps, lastCall, cache, disk,
                 clockDay,
                 api_key, mergerVars, runVars, leakVars,
                 failed, pageVars>>

\* Lines 1986-1990: fetch_cinema_slugs and fetch_cinema_showtimes_data for
\* one favourite cinema; neither catches the exception of its listing.
FetchCinema ==
  /\ pc = "cinemas"
  /\ cinemaIdx <= Len(FAV_CINEMAS)
  /\ \E ok \in BOOLEAN :
       IF ok THEN cinemaIdx' = cinemaIdx + 1 /\ UNCHANGED <<pc, exitCode>>
       ELSE Crash /\ UNCHANGED cinemaIdx
  /\ UNCHANGED <<sizeIdx, requested, replies, catalog, stubs, zone_slugs, zone_shows, futs,
                 written, shows, markerVars, cache, disk, clockDay, api_key,
                 mergerVars, runVars, leakVars,
                 traceVars, pageVars>>

\* Line 1993: main() calls enrich_with_omdb.
CallEnrich ==
  /\ pc = "cinemas"
  /\ cinemaIdx > Len(FAV_CINEMAS)
  /\ pc' = "enrich"
  /\ UNCHANGED <<sizeIdx, requested, replies, catalog, stubs, zone_slugs, zone_shows, futs,
                 exitCode, written, cinemaIdx, shows, markerVars, cache, disk,
                 clockDay, api_key, mergerVars, runVars, leakVars,
                 traceVars, pageVars>>

\* Mutant: a check is submitted for every item.
WithOrWithoutId(items) == SlugsOf(items)

\* imdb_ids = [s["imdbID"] for s in shows if s.get("imdbID")]
WithImdbId(items) == {s.slug : s \in {i \in items : Truthy(i.imdbID)}}

\* Lines 1996-2003: enrich_with_omdb has returned; one check_leak task is
\* submitted per item with an imdbID.
EnrichDone ==
  /\ pc = "enrich" /\ mpc = "returned"
  /\ pc' = "leak"
  /\ leakFuts' = WithImdbId(shows)
  /\ leaks' = [k \in {} |-> FALSE]
  /\ leakQueries' = [s \in Slugs |-> <<>>]
  /\ UNCHANGED prevLeaks
  /\ UNCHANGED <<sizeIdx, requested, replies, catalog, stubs, zone_slugs, zone_shows, futs,
                 exitCode, written, cinemaIdx, shows, markerVars, cache, disk,
                 clockDay, api_key, mergerVars, runVars,
                 traceVars, pageVars>>

\* enrich_with_omdb raised: nothing in main() catches it.
EnrichCrash ==
  /\ pc = "enrich" /\ mpc = "raised"
  /\ Crash
  /\ UNCHANGED <<sizeIdx, requested, replies, catalog, stubs, zone_slugs, zone_shows, futs,
                 written, cinemaIdx, shows, markerVars, cache, disk, clockDay,
                 api_key, mergerVars, runVars, leakVars,
                 traceVars, pageVars>>

\* What the search of the leak index may deliver.
LeakOutcomes == {"vip rip", "nothing", "error"}

\* check_leak: True only for a vip hit with a rip name; an exception is
\* swallowed and gives False.
CheckLeak(o) == o = "vip rip"

\* Lines 2004-2005: one leak future completes; its result is stored under
\* the imdbID it was submitted for.
LeakDone(s) ==
  /\ pc = "leak"
  /\ s \in leakFuts
  /\ leakFuts' = leakFuts \ {s}
  /\ \E o \in LeakOutcomes :
       LET id == ItemOf(shows, s).imdbID IN
       /\ leaks' = [k \in DOMAIN leaks \cup {id} |->
                       IF k = id THEN CheckLeak(o) ELSE leaks[k]]
       /\ leakQueries' = [leakQueries EXCEPT ![s] = Append(@, o)]
  /\ UNCHANGED prevLeaks
  /\ UNCHANGED <<mainVars, shows, markerVars, cache, disk, clockDay, api_key,
                 mergerVars, runVars,
                 traceVars, pageVars>>

\* s["isLeaked"] = leaks.get(s.get("imdbID"), False)
Annotated(s, lk) ==
  [s EXCEPT !.isLeaked = IF Get(s.imdbID) \in DOMAIN lk THEN lk[Get(s.imdbID)] ELSE FALSE]

\* Lines 2007-2069: annotate every show, sort.
Annotate ==
  /\ pc = "leak" /\ leakFuts = {}
  /\ shows' = {Annotated(s, leaks) : s \in shows}
  /\ pc' = "write"
  /\ UNCHANGED <<sizeIdx, requested, replies, catalog, stubs, zone_slugs, zone_shows, futs,
                 exitCode, written, cinemaIdx, markerVars, cache, disk, clockDay,
                 api_key, mergerVars, runVars, leakVars,
                 traceVars, pageVars>>

\* Lines 2073-2079: build the page and write the output file; main returns.
WriteOutput ==
  /\ pc = "write"
  /\ written' = written + 1
  /\ pc' = "done"
  /\ exitCode' = 0
  /\ UNCHANGED <<sizeIdx, requested, replies, catalog, stubs, zone_slugs, zone_shows, futs,
                 cinemaIdx, shows, markerVars, cache, disk, clockDay, api_key,
                 mergerVars, runVars, leakVars,
                 traceVars, pageVars>>

\* One invocation of the script on a fresh movies.db.
Init ==
  /\ pc = "fetch_shows" /\ sizeIdx = 1 /\ requested = <<>> /\ replies = <<>>
  /\ catalog = {} /\ stubs = {} /\ zone_slugs = {} /\ zone_shows = {}
  /\ futs = {} /\ exitCode = None /\ written = 0 /\ cinemaIdx = 1
  /\ shows = {}
  /\ FreshMarkers
  /\ cache = {} /\ disk = {}
  /\ clockDay = Today
  /\ api_key \in BOOLEAN
  /\ IdleMerger
  /\ run = 1 /\ prevRun = [how |-> "none", drained |-> {}]
  /\ world \in {KnownWorld, FaultyWorld}
  /\ NoLeakStage
  /\ NoTrace
  /\ NoPage

Next ==
  \/ FetchShowsRequest
  \/ FetchShowsExit
  \/ ZoneFilter
  \/ ZoneMerge
  \/ \E s \in Slugs : SingleShowDone(s)
  \/ RegisterStage
  \/ TrackStage
  \/ FetchCinema
  \/ CallEnrich
  \/ EnrichStart
  \/ \E s \in Slugs : TaskStart(s)
  \/ \E s \in Slugs : TaskRequest(s)
  \/ \E s \in Slugs : TaskRetry(s)
  \/ \E s \in Slugs : Drain(s)
  \/ \E s \in Slugs : DrainRaise(s)
  \/ EnrichReturn
  \/ EnrichRaise
  \/ EnrichDone
  \/ EnrichCrash
  \/ \E s \in Slugs : LeakDone(s)
  \/ Annotate
  \/ WriteOutput

Spec == Init /\ [][Next]_vars

(* ------------------ the leak stage run after run (SpecLeak) ------------- *)

\* The external ids enrichment may leave on an item: none, or one of two.
ImdbIds == {None, "tt1", "tt2"}

\* An item as enrich_with_omdb leaves it, with the given imdbID.
EnrichedItem(slug, id) == [SetDefaults(NewItem(slug)) EXCEPT !.imdbID = id]

\* The lists of the first n items, each with any of the ids; two items may
\* carry the same one.
LeakBatches(n) ==
  {{EnrichedItem(SlugSeq[i], ids[i]) : i \in 1..n} : ids \in [1..n -> ImdbIds]}

\* main() has reached line 1996: enrich_with_omdb has returned.
InitLeak ==
  /\ pc = "enrich" /\ sizeIdx = 1 /\ requested = <<>> /\ replies = <<>>
  /\ catalog = {} /\ stubs = {} /\ zone_slugs = {} /\ zone_shows = {}
  /\ futs = {} /\ exitCode = None /\ written = 0 /\ cinemaIdx = 1
  /\ FreshMarkers
  /\ \E n \in 1..Min(MaxBatch, Len(SlugSeq)) : shows \in LeakBatches(n)
  /\ cache = {} /\ disk = {}
  /\ clockDay = Today
  /\ api_key = TRUE
  /\ today = Today /\ mpc = "returned" /\ missing = {} /\ drained = {}
  /\ task = [s \in {} |-> QueuedTask]
  /\ upserts = [s \in Slugs |-> 0]
  /\ cacheAtStart = {}
  /\ run = 1 /\ prevRun = [how |-> "none", drained |-> {}]
  /\ world = KnownWorld
  /\ NoLeakStage
  /\ NoTrace
  /\ NoPage

\* The script is run again over the same items with the same external ids;
\* nothing of the leak stage is kept from one run to the next.
LeakRerun ==
  /\ pc = "done"
  /\ run < MaxRuns
  /\ run' = run + 1
  /\ pc' = "enrich" /\ exitCode' = None /\ written' = 0
  /\ shows' = {[s EXCEPT !.isLeaked = Absent] : s \in shows}
  /\ prevLeaks' = leaks
  /\ leakFuts' = {} /\ leaks' = [k \in {} |-> FALSE]
  /\ leakQueries' = [s \in Slugs |-> <<>>]
  /\ UNCHANGED <<sizeIdx, requested, replies, catalog, stubs, zone_slugs, zone_shows, futs,
                 cinemaIdx, markerVars, cache, disk, clockDay, api_key, mergerVars,
                 prevRun, world, traceVars, pageVars>>

NextLeak ==
  \/ EnrichDone
  \/ \E s \in Slugs : LeakDone(s)
  \/ Annotate
  \/ WriteOutput
  \/ LeakRerun

SpecLeak == InitLeak /\ [][NextLeak]_vars


(* ------------------- one card of the page (SpecPage) -------------------- *)

\* Largest next24ShowtimesCount of the zone in SpecPage.
MaxCount == 2

\* Lines 1388-1389.
SWIPE_DIST == 11
MAX_VERTICAL == 500

\* The tags build_html appends besides the lifecycle tags, in its order.
ExtraTags == <<"kids", "new", "dolby", "imax", "imdb7", "web">>

\* What build_html reads for a card: the zone's count and bookable flag,
\* the show's isComingSoon, the conditions of the other tags that hold, the
\* number of favourite cinemas that list the film on the date (logos of the
\* main face) and the number that have showtimes on the date (blocks).
CardArgs ==
  [zoneNext24 : 0..MaxCount, bookable : BOOLEAN, isComingSoon : BOOLEAN,
   extras : {{}, {"kids"}, {"new", "web"}},
   logos : 0..Len(FAV_CINEMAS), blocks : 0..Len(FAV_CINEMAS)]

\* Lines 1753-1762: now, else book, else soon.
HeadTags(count, bookable, soon) ==
  IF count > 0 THEN <<"now">>
  ELSE IF bookable THEN <<"book">>
  ELSE IF soon THEN <<"soon">>
  ELSE <<>>

\* Mutant: the future tag does not look at the count.
IsFutureAnyCount(count, bookable, soon) == ~bookable /\ ~soon

\* Lines 1790-1791: zone_next24 == 0 and not bookable and not isComingSoon.
IsFuture(count, bookable, soon) == count = 0 /\ ~bookable /\ ~soon

\* Lines 1765-1787: the other tags, each when its condition holds.
RECURSIVE ExtrasFrom(_, _)
ExtrasFrom(i, holds) ==
  IF i > Len(ExtraTags) THEN <<>>
  ELSE (IF ExtraTags[i] \in holds THEN <<ExtraTags[i]>> ELSE <<>>)
         \o ExtrasFrom(i + 1, holds)

\* Lines 1750-1791: tag_keys.
TagKeys(a) ==
  HeadTags(a.zoneNext24, a.bookable, a.isComingSoon)
    \o ExtrasFrom(1, a.extras)
    \o (IF IsFuture(a.zoneNext24, a.bookable, a.isComingSoon) THEN <<"future">> ELSE <<>>)

Has(seq, x) == \E i \in DOMAIN seq : seq[i] = x

\* Lines 1794-1858: the main face always, the showtimes face when a cinema
\* has showtimes; dots only for more than one face; class hidden for a
\* future cardDom.
CardOf(a) ==
  LET num_faces == IF a.blocks > 0 THEN 2 ELSE 1 IN
  [tags |-> TagKeys(a),
   hidden |-> Has(TagKeys(a), "future"),
   faces |-> num_faces,
   dots |-> IF num_faces > 1 THEN num_faces ELSE 0,
   logos |-> a.logos]

\* build_html renders the card and the browser loads the page: face 0 and
\* dot 0 carry `active` (lines 1799, 1845), the handlers are wired.
BuildHtml ==
  /\ page = "args"
  /\ cardDom' = CardOf(cardArgs)
  /\ faceActive' = {0}
  /\ dotActive' = IF CardOf(cardArgs).dots > 0 THEN {0} ELSE {}
  /\ altFace' = FALSE /\ idx' = 0 /\ press' = <<>> /\ jsError' = FALSE
  /\ page' = "loaded"
  /\ UNCHANGED <<mainVars, shows, markerVars, cache, disk, clockDay, api_key,
                 mergerVars, runVars, leakVars, traceVars, cardArgs>>

\* Pointer positions of the model.
PointerXs == {0, SWIPE_DIST}
PointerYs == {0, MAX_VERTICAL + 1}

\* Line 1384: the swipe handlers exist on a card with more than one face.
Swipeable == page = "loaded" /\ cardDom.faces > 1

\* Lines 1391-1395: pointerdown.
PointerDown(x, y) ==
  /\ Swipeable
  /\ press' = <<x, y>>
  /\ UNCHANGED <<mainVars, shows, markerVars, cache, disk, clockDay, api_key,
                 mergerVars, runVars, leakVars, traceVars,
                 page, cardArgs, cardDom, faceActive, dotActive, altFace, idx, jsError>>

Abs(n) == IF n < 0 THEN 0 - n ELSE n

\* Lines 1405-1407.
Flipped(i, dx, n) == IF dx < 0 THEN (i + 1) % n ELSE (i - 1 + n) % n

\* Lines 1397-1418: pointerup after a pointerdown.
PointerUp(x, y) ==
  /\ Swipeable
  /\ press # <<>>
  /\ LET dx == x - press[1]
         dy == y - press[2]
         to == Flipped(idx, dx, cardDom.faces)
     IN IF Abs(dx) >= SWIPE_DIST /\ Abs(dy) <= MAX_VERTICAL
          THEN /\ faceActive' = (faceActive \ {idx}) \cup {to}
               /\ idx' = to
               /\ dotActive' = {to}
               /\ altFace' = (to > 0)
               /\ jsError' = (jsError \/ to >= cardDom.dots)
          ELSE /\ altFace' = (idx > 0)
               /\ UNCHANGED <<faceActive, idx, dotActive, jsError>>
  /\ UNCHANGED <<mainVars, shows, markerVars, cache, disk, clockDay, api_key,
                 mergerVars, runVars, leakVars, traceVars,
                 page, cardArgs, cardDom, press>>

\* Lines 1200-1212: click on logo i of the main face, which is displayed
\* while face 0 is active (line 1028).  faces[i + 1] of a face that does
\* not exist is undefined and .classList raises, after the loops that
\* removed `active` everywhere.
LogoClick(i) ==
  /\ page = "loaded"
  /\ i < cardDom.logos
  /\ 0 \in faceActive
  /\ IF i + 1 < cardDom.faces
       THEN /\ faceActive' = {i + 1}
            /\ IF i + 1 < cardDom.dots
                 THEN dotActive' = {i + 1} /\ altFace' = TRUE /\ UNCHANGED jsError
                 ELSE dotActive' = {} /\ jsError' = TRUE /\ UNCHANGED altFace
       ELSE /\ faceActive' = {} /\ dotActive' = {}
            /\ jsError' = TRUE
            /\ UNCHANGED altFace
  /\ UNCHANGED <<mainVars, shows, markerVars, cache, disk, clockDay, api_key,
                 mergerVars, runVars, leakVars, traceVars,
                 page, cardArgs, cardDom, idx, press>>

\* Lines 1215-1218: click on the poster, which is displayed while the card
\* has no alt-face class (line 667).
PosterClick ==
  /\ page = "loaded"
  /\ ~altFace
  /\ faceActive' = {0}
  /\ UNCHANGED <<mainVars, shows, markerVars, cache, disk, clockDay, api_key,
                 mergerVars, runVars, leakVars, traceVars,
                 page, cardArgs, cardDom, dotActive, altFace, idx, press, jsError>>

\* build_html is called for one cardDom.
InitPage ==
  /\ pc = "write" /\ sizeIdx = 1 /\ requested = <<>> /\ replies = <<>>
  /\ catalog = {} /\ stubs = {} /\ zone_slugs = {} /\ zone_shows = {}
  /\ futs = {} /\ exitCode = None /\ written = 0 /\ cinemaIdx = 1
  /\ FreshMarkers
  /\ shows = {}
  /\ cache = {} /\ disk = {}
  /\ clockDay = Today
  /\ api_key = FALSE
  /\ IdleMerger
  /\ run = 1 /\ prevRun = [how |-> "none", drained |-> {}]
  /\ world = KnownWorld
  /\ NoLeakStage
  /\ NoTrace
  /\ page = "args" /\ cardArgs \in CardArgs /\ cardDom = NoCard
  /\ faceActive = {} /\ dotActive = {} /\ altFace = FALSE
  /\ idx = 0 /\ press = <<>> /\ jsError = FALSE

NextPage ==
  \/ BuildHtml
  \/ \E x \in PointerXs, y \in PointerYs : PointerDown(x, y)
  \/ \E x \in PointerXs, y \in PointerYs : PointerUp(x, y)
  \/ \E i \in 0..(Len(FAV_CINEMAS) - 1) : LogoClick(i)
  \/ PosterClick

SpecPage == InitPage /\ [][NextPage]_vars

(* ------------------------------ fetch_shows ---------------------------- *)

\* A reply fetch_shows passes over: an exception or an empty list.
PassedOver(r) == r.exc \/ r.slugs = {}

\* C1: fetch_shows asks for the page sizes 100, 50, 20 in this order; every
\* reply before the last one was an error or an empty list, so no request
\* follows the first non-empty list; while the loop runs every reply so far
\* was passed over; and what it returns is the list of the first non-empty
\* reply.
C1_PageSizeFallback ==
  /\ Len(requested) <= 3
  /\ Len(replies) = Len(requested)
  /\ \A i \in 1..Len(requested) : requested[i] = <<100, 50, 20>>[i]
  /\ \A i \in 1..(Len(replies) - 1) : PassedOver(replies[i])
  /\ pc = "fetch_shows" =>
       /\ \A i \in 1..Len(replies) : PassedOver(replies[i])
       /\ sizeIdx = Len(requested) + 1
       /\ shows = {}
  /\ pc = "zone_filter" =>
       /\ ~PassedOver(replies[Len(replies)])
       /\ SlugsOf(shows) = replies[Len(replies)].slugs

\* C1 witness: the third page size is the first to deliver a list, after an
\* error and an empty list.
C1_Witness ==
  /\ pc = "zone_filter"
  /\ requested = <<100, 50, 20>>
  /\ replies[1].exc /\ ~replies[2].exc /\ replies[2].slugs = {}
  /\ SlugsOf(shows) = {"a", "b", "c"}

AllPassedOver == Len(replies) = 3 /\ \A i \in 1..3 : PassedOver(replies[i])

NoLaterStageRan ==
  /\ shows = {} /\ zone_slugs = {} /\ zone_shows = {} /\ futs = {}
  /\ cinemaIdx = 1 /\ DOMAIN seen = {} /\ DOMAIN seen_bookable = {}
  /\ DOMAIN seen_soon = {}
  /\ mpc = "idle" /\ DOMAIN task = {}
  /\ leakFuts = {} /\ DOMAIN leaks = {}
  /\ written = 0

\* C2: once all three page sizes gave an error or an empty list, the process
\* is in fetch_shows about to exit or has exited with status 1; no later
\* stage has run, and nothing can run after the exit.
C2_FatalWithoutShows ==
  AllPassedOver =>
    /\ pc \in {"fetch_shows", "exited"}
    /\ NoLaterStageRan
    /\ pc = "exited" => exitCode = 1 /\ ~ENABLED Next
    /\ pc = "fetch_shows" => exitCode = None /\ ENABLED FetchShowsExit

\* C2 witness: the process has exited after an error, an empty list and
\* another error.
C2_Witness ==
  /\ pc = "exited"
  /\ replies[1].exc /\ ~replies[2].exc /\ replies[3].exc

\* C3: after the fatal exit of fetch_shows no file, cache row or marker has
\* been written; the output file is written at most once, and only when the
\* fetch stages, the enrichment and the leak check have finished.
C3_NoPartialOutput ==
  /\ pc = "exited" =>
       /\ written = 0
       /\ cache = {} /\ disk = {}
       /\ DOMAIN seen = {} /\ DOMAIN seen_bookable = {} /\ DOMAIN seen_soon = {}
  /\ written <= 1
  /\ written = 1 =>
       /\ pc = "done"
       /\ ~PassedOver(replies[Len(replies)])
       /\ futs = {}
       /\ cinemaIdx > Len(FAV_CINEMAS)
       /\ mpc = "returned"
       /\ \A s \in DOMAIN task : task[s].st = "done" /\ s \in drained
       /\ leakFuts = {}

\* C3 witness: the fatal exit after three transport errors.
C3_Witness ==
  /\ pc = "exited"
  /\ \A i \in 1..3 : replies[i].exc

(* ------------------------------ zone filter ---------------------------- *)

\* C4 as claimed: when the single-show stage is over, the carried slugs are
\* the catalog slugs that the zone listing holds.
C4_Original ==
  (pc = "single_show" /\ futs = {}) => SlugsOf(shows) = catalog \cap zone_slugs

\* C4 amended: right after the zone filter the carried slugs are exactly the
\* intersection of catalog and zone listing; the single-show stage then
\* keeps or drops each of them and may add slugs of the second zone listing,
\* so that every carried slug is in the intersection or in that listing, and
\* a slug it added is none of the filtered ones.
C4_ZoneScope ==
  /\ pc = "zone_merge" => SlugsOf(shows) = catalog \cap zone_slugs
  /\ pc = "single_show" =>
       /\ SlugsOf(shows) \subseteq (catalog \cap zone_slugs) \cup zone_shows
       /\ SlugsOf(shows) \cap futs = {}
       /\ stubs = zone_shows \ (catalog \cap zone_slugs)
       /\ \A s \in catalog \ (zone_slugs \cup zone_shows) : s \notin SlugsOf(shows)

\* C4 witness: the stage is over, a slug outside the catalog is carried and
\* a slug of the intersection is not.
C4_Witness ==
  /\ pc = "single_show" /\ futs = {}
  /\ \E s \in SlugsOf(shows) : s \notin catalog
  /\ \E s \in catalog \cap zone_slugs : s \notin SlugsOf(shows)


(* --------------------------- enrichment merger -------------------------- *)

\* The number of provider requests made for an item in the current run.
Requests(s) == IF s \in DOMAIN task THEN Len(task[s].reqs) ELSE 0

\* The key of the lookup result that a card / cache column is filled from.
DataKey(k) == CASE k = "omdbRating" -> "imdbRating"
                [] k = "omdbVotes" -> "imdbVotes"
                [] OTHER -> k

\* The items without a row for the current day when the run started.
MissedAtStart == {s \in SlugsOf(shows) : ~HasRow(cacheAtStart, s, clockDay)}

\* C5: once the merger has hydrated, every item that had a row for (slug,
\* today) when the run started carries that row's values in all seven fields
\* and no provider request is ever made for it in this run.
C5_CacheHitNoLookup ==
  mpc # "idle" =>
    \A s \in SlugsOf(shows) :
      HasRow(cacheAtStart, s, clockDay) =>
        /\ Requests(s) = 0
        /\ \A k \in CardKeys :
             ItemOf(shows, s)[k] = FetchOne(cacheAtStart, s, clockDay)[k]

\* C5 witness: item a was served from the cache while a request has been
\* made for item b, which missed it.
C5_Witness ==
  /\ mpc = "pool"
  /\ HasRow(cacheAtStart, "a", clockDay)
  /\ ItemOf(shows, "a").omdbRating = "7.5"
  /\ Requests("b") = 1

\* The row of (s, today) holds the values of the lookup result of s.
RowMatchesResult(s) ==
  /\ HasRow(cache, s, clockDay)
  /\ \A k \in CardKeys :
       FetchOne(cache, s, clockDay)[k] = Get(task[s].result[DataKey(k)])

\* C6 as claimed: a run that has returned made exactly one upsert for every
\* item that had no row of today, with the values of its lookup.
C6_Original ==
  mpc = "returned" =>
    \A s \in MissedAtStart : upserts[s] = 1 /\ RowMatchesResult(s)

\* C6 amended: no item is upserted twice in a run; an item is upserted
\* exactly when the drain loop handles its lookup result, and its row then
\* holds the values of that result; a run with a key that returns has
\* drained every item that missed the cache; a run without a key makes no
\* lookup and no upsert.
C6_UpsertPerDrainedItem ==
  /\ \A s \in Slugs : upserts[s] = IF s \in drained THEN 1 ELSE 0
  /\ \A s \in drained : s \in MissedAtStart /\ RowMatchesResult(s)
  /\ (mpc = "returned" /\ api_key) => drained = MissedAtStart
  /\ ~api_key => /\ DOMAIN task = {} /\ drained = {}
                 /\ mpc # "idle" => cache = cacheAtStart

\* C6 witness: a run with a key has returned; a's lookup gave data and b's
\* failed, and both rows were written.
C6_Witness ==
  /\ mpc = "returned" /\ api_key
  /\ MissedAtStart = {"a", "b"} /\ drained = {"a", "b"}
  /\ task["a"].result.imdbRating = "7.5"
  /\ task["b"].result = EmptyDict

\* C7 as claimed: in a run that follows another run of the same day over the
\* same items, the cache stays as it was when the run started and no
\* provider request is made, however the earlier run's lookups ended.
C7_SecondRunIdempotent ==
  (run >= 2 /\ mpc # "idle") =>
    /\ cache = cacheAtStart
    /\ disk = cacheAtStart
    /\ \A s \in Slugs : Requests(s) = 0 /\ upserts[s] = 0

\* C7, the case that holds: the same, after an earlier run that returned.
C7_AfterReturnedRun ==
  (run >= 2 /\ prevRun.how = "returned" /\ mpc # "idle") =>
    /\ cache = cacheAtStart
    /\ disk = cacheAtStart
    /\ \A s \in Slugs : Requests(s) = 0 /\ upserts[s] = 0

\* C7 witness: the first run drained a and then ended with the exception of
\* b's lookup task; the second run asks the provider about a again.
C7_Witness ==
  /\ run = 2 /\ api_key
  /\ prevRun = [how |-> "raised", drained |-> {"a"}]
  /\ Requests("a") = 1

\* C8: when enrich_with_omdb has returned, every item holds every one of the
\* seven enrichment keys, with a value or None.
C8_UniformShape ==
  mpc = "returned" =>
    \A s \in shows : \A k \in CardKeys : s[k] # Absent

\* C8 witness: a run without a key has returned; a was served from the
\* cache, b missed it and got None in every field.
C8_Witness ==
  /\ mpc = "returned" /\ ~api_key
  /\ HasRow(cacheAtStart, "a", clockDay)
  /\ MissedAtStart = {"b"}
  /\ \A k \in CardKeys : ItemOf(shows, "b")[k] = None

\* C9 as claimed: no enrichment field of an item and no column of a cache
\* row ever holds the provider's "N/A".
C9_NoSentinel ==
  /\ \A s \in shows : \A k \in CardKeys : s[k] # "N/A"
  /\ \A r \in cache : \A k \in CardKeys : r[k] # "N/A"

\* C10: a lookup makes at most two requests, the first with the item's year
\* and the second with the year before, never an earlier one; and when the
\* provider says "Movie not found!" for the year and has data for the year
\* before, the lookup returns that data.
C10_YearRetry ==
  \A s \in DOMAIN task :
    /\ Len(task[s].reqs) <= 2
    /\ \A i \in 1..Len(task[s].reqs) : task[s].reqs[i] # "2023"
    /\ Len(task[s].reqs) = 2 => task[s].reqs = <<"2025", "2024">>
    /\ (/\ task[s].st = "done" /\ task[s].year = "2025"
        /\ world.first[s] = {NotFound}
        /\ world.retry[s] \in {{HitFull}, {HitNA}, {HitBare}})
       => /\ task[s].reqs = <<"2025", "2024">>
          /\ task[s].result # EmptyDict
          /\ \E d \in world.retry[s] :
               /\ task[s].result.imdbID = Get(d.imdbID)
               /\ task[s].result.imdbRating \in {d.imdbRating, None}

\* C10 witness: the lookup of a title of 2025 is over after "not found" for
\* 2025 and data for 2024, which it returned.
C10_Witness ==
  /\ "a" \in DOMAIN task /\ task["a"].st = "done"
  /\ world.first["a"] = {NotFound} /\ world.retry["a"] = {HitFull}
  /\ task["a"].reqs = <<"2025", "2024">>
  /\ task["a"].result.imdbRating = "7.5"


\* C11: a lookup whose first answer is a non-success other than "Movie not
\* found!", or is "Movie not found!" while the show dict carries no year, or
\* whose first request raises a transport error, makes no second request
\* and returns the empty dict.
C11_PermanentMiss ==
  \A s \in DOMAIN task :
    (/\ task[s].reqs # <<>>
     /\ \/ world.first[s] = {OtherError}
        \/ world.first[s] = {Transport}
        \/ world.first[s] = {NotFound} /\ ~Truthy(task[s].year))
    => /\ task[s].st = "done"
       /\ Len(task[s].reqs) = 1
       /\ task[s].result = EmptyDict

\* C11 witness: the lookup of a title of 2025 has been drained after one
\* request, which the provider answered with another error.
C11_Witness ==
  /\ "a" \in drained
  /\ task["a"].year = "2025"
  /\ world.first["a"] = {OtherError}
  /\ task["a"].reqs = <<"2025">>
  /\ \A k \in CardKeys : ItemOf(shows, "a")[k] = None


(* ------------------------ lifecycle marker tracker ---------------------- *)

\* The marker table and the freshness window of the tracker of lastCall.
TableOf(fn) == CASE fn = "seen" -> seen
                 [] fn = "seen_bookable" -> seen_bookable
                 [] OTHER -> seen_soon
WindowOf(fn) == IF fn = "seen_bookable" THEN HoursUnits(NEW_BOOKABLE_HOURS)
                ELSE HoursUnits(NEW_SOON_HOURS)

\* C12: a tracker call with a true predicate (register_and_age: any call)
\* for an identity without a marker returns (0.0, True), and the marker
\* table then holds, for that identity, the time of the call to the second.
C12_FirstTrueCall ==
  (lastCall.fn # "none" /\ lastCall.pred /\ lastCall.row = <<>>) =>
    /\ lastCall.ret = [inf |-> FALSE, elapsed |-> 0, fresh |-> TRUE]
    /\ lastCall.slug \in DOMAIN TableOf(lastCall.fn)
    /\ LET t0 == TableOf(lastCall.fn)[lastCall.slug] IN
         /\ t0 <= lastCall.at
         /\ lastCall.at - t0 < UnitsPerSecond
         /\ t0 % UnitsPerSecond = 0

\* C12 witness: register_and_age_bookable met b for the first time, with a
\* true predicate, some time after the store was created.
C12_Witness ==
  /\ lastCall.fn = "seen_bookable" /\ lastCall.slug = "b" /\ lastCall.pred
  /\ lastCall.row = <<>>
  /\ lastCall.at > HoursUnits(NEW_SOON_HOURS)
  /\ "b" \in DOMAIN seen_bookable

\* C13: no step changes or removes a row of a marker table, whatever
\* tracker is called with whatever predicate and whenever; and a call with a
\* false predicate leaves the three tables as they are.
C13_InsertOnce ==
  [][/\ \A s \in DOMAIN seen : s \in DOMAIN seen' /\ seen'[s] = seen[s]
     /\ \A s \in DOMAIN seen_bookable :
          s \in DOMAIN seen_bookable' /\ seen_bookable'[s] = seen_bookable[s]
     /\ \A s \in DOMAIN seen_soon :
          s \in DOMAIN seen_soon' /\ seen_soon'[s] = seen_soon[s]
     /\ (steps' # steps /\ now' = now /\ ~lastCall'.pred)
          => UNCHANGED <<seen, seen_bookable, seen_soon>>]_vars

\* C13 witness: a tracker was called with a true predicate for an identity
\* whose marker was more than a second old, and the marker is as it was; the
\* other identity has no marker in that table.
C13_Witness ==
  /\ lastCall.pred /\ lastCall.row # <<>>
  /\ lastCall.at > lastCall.row[1] + UnitsPerSecond
  /\ TableOf(lastCall.fn)[lastCall.slug] = lastCall.row[1]
  /\ DOMAIN TableOf(lastCall.fn) = {lastCall.slug}

HadMarker ==
  /\ lastCall.slug \in DOMAIN TableOf(lastCall.fn)
  /\ ~(lastCall.pred /\ lastCall.row = <<>>)

\* C15 as claimed: once a marker is stored, every call of
\* register_and_age_bookable or register_and_age_soon for that identity,
\* with either predicate value, returns the time elapsed since the marker
\* and whether it is under the window.
C15_Original ==
  (lastCall.fn \in {"seen_bookable", "seen_soon"} /\ HadMarker) =>
    LET el == lastCall.at - TableOf(lastCall.fn)[lastCall.slug] IN
      lastCall.ret = [inf |-> FALSE, elapsed |-> el,
                      fresh |-> el < WindowOf(lastCall.fn)]

\* C15 amended: once a marker is stored, a call with a true predicate
\* returns the time elapsed since the marker and whether it is under the
\* window; a call with a false predicate returns (inf, False), marker or not.
C15_ElapsedWhenTrue ==
  lastCall.fn \in {"seen_bookable", "seen_soon"} =>
    /\ (lastCall.pred /\ HadMarker) =>
         LET el == lastCall.at - TableOf(lastCall.fn)[lastCall.slug] IN
           lastCall.ret = [inf |-> FALSE, elapsed |-> el,
                           fresh |-> el < WindowOf(lastCall.fn)]
    /\ ~lastCall.pred => lastCall.ret = [inf |-> TRUE, elapsed |-> 0, fresh |-> FALSE]

\* C15 witness: register_and_age_soon is called with a false predicate for a,
\* whose marker was stored less than 24 hours before.
C15_Witness ==
  /\ lastCall.fn = "seen_soon" /\ lastCall.slug = "a" /\ ~lastCall.pred
  /\ "a" \in DOMAIN seen_soon
  /\ lastCall.at > seen_soon["a"]
  /\ lastCall.at - seen_soon["a"] < HoursUnits(NEW_SOON_HOURS)
  /\ lastCall.ret.inf


(* ------------------------------ end to end ------------------------------ *)

\* The run of the scenario is over: a provider key, the catalog a, b, c, the
\* zone a, c, a provider that knows a and b, and the cache empty at the start.
ScenarioDone == pc = "done" /\ world = KnownWorld /\ api_key

\* All seven enrichment fields of the record (item or cache row) are None.
AllEmpty(r) == \A k \in CardKeys : r[k] = None

\* C16 as claimed: the output items are exactly a and c, a has a rating, c
\* has empty fields, and the cache holds one record, the one of a.
C16_Original ==
  ScenarioDone =>
    /\ SlugsOf(shows) = {"a", "c"}
    /\ Truthy(ItemOf(shows, "a").omdbRating)
    /\ AllEmpty(ItemOf(shows, "c"))
    /\ {r.slug : r \in disk} = {"a"} /\ Cardinality(disk) = 1

\* C16 amended: the output items are a and c, less those whose single-show
\* call failed; a has its rating and c has empty fields; and the cache
\* holds exactly one record of today for every output item: the rating for
\* a, seven empty fields for c.  No record is written for b.
C16_EndToEnd ==
  ScenarioDone =>
    /\ SlugsOf(shows) = {"a", "c"} \ failed
    /\ "a" \in SlugsOf(shows) => ItemOf(shows, "a").omdbRating = "7.5"
    /\ "c" \in SlugsOf(shows) => AllEmpty(ItemOf(shows, "c"))
    /\ disk = cache
    /\ {r.slug : r \in disk} = SlugsOf(shows)
    /\ Cardinality(disk) = Cardinality(shows)
    /\ \A r \in disk :
         /\ r.yyyymmdd = Today
         /\ r.slug = "a" => r.omdbRating = "7.5"
         /\ r.slug = "c" => AllEmpty(r)

\* C16 witness: the run is over, no single-show call failed, a and c are
\* output and both have a record in the cache.
C16_Witness ==
  /\ ScenarioDone /\ failed = {}
  /\ SlugsOf(shows) = {"a", "c"}
  /\ ItemOf(shows, "a").omdbRating = "7.5"
  /\ {r.slug : r \in disk} = {"a", "c"}


(* ------------------------------- leak check ----------------------------- *)

\* The item has an external id: its imdbID field is truthy.
HasId(s) == Truthy(ItemOf(shows, s).imdbID)

\* The leak stage of the current run is over and the items are annotated.
LeakStageOver == pc \in {"write", "done"}

\* C17: in every run, whatever the run before found, at most one leak query
\* is made per item and none for an item without an external id; when the
\* stage is over exactly one was made for every item with an external id,
\* and every item without one is flagged not leaked.
C17_LeakQueryPerItem ==
  /\ \A s \in SlugsOf(shows) :
       /\ Len(leakQueries[s]) <= 1
       /\ ~HasId(s) => leakQueries[s] = <<>>
  /\ LeakStageOver =>
       \A s \in SlugsOf(shows) :
         /\ HasId(s) => Len(leakQueries[s]) = 1
         /\ ~HasId(s) => ItemOf(shows, s).isLeaked = FALSE

\* C17 witness: the second run is over; the first run found tt1 leaked; a,
\* which carries tt1, was queried again, and b, without an id, was not.
C17_Witness ==
  /\ run = 2 /\ pc = "done"
  /\ "tt1" \in DOMAIN prevLeaks /\ prevLeaks["tt1"]
  /\ SlugsOf(shows) = {"a", "b"}
  /\ ItemOf(shows, "a").imdbID = "tt1" /\ Len(leakQueries["a"]) = 1
  /\ ItemOf(shows, "b").imdbID = None /\ leakQueries["b"] = <<>>
  /\ ItemOf(shows, "b").isLeaked = FALSE


\* The leak check made for item s met an error (no success, or no answer).
LeakErrored(s) == leakQueries[s] = <<"error">>

\* What the leak check made for item s returned.
OwnLeakResult(s) == CheckLeak(leakQueries[s][1])

\* An error of one item's leak check stays with that item: the check is not
\* repeated, the run goes on, the item is flagged not leaked, and every other
\* item is flagged with the result of its own check.
ErrorsContained ==
  /\ pc # "crashed"
  /\ \A s \in SlugsOf(shows) : Len(leakQueries[s]) <= 1
  /\ LeakStageOver =>
       \A s \in WithImdbId(shows) :
         /\ LeakErrored(s) => ItemOf(shows, s).isLeaked = FALSE
         /\ (\E t \in WithImdbId(shows) \ {s} : LeakErrored(t))
              => ItemOf(shows, s).isLeaked = OwnLeakResult(s)

\* C18 as claimed: errors of the leak check are contained, for any items.
C18_LeakErrorContained == ErrorsContained

\* No two items carry the same external id.
IdsDiffer ==
  \A s, t \in WithImdbId(shows) :
    s # t => ItemOf(shows, s).imdbID # ItemOf(shows, t).imdbID

\* C18, the case that holds: the same, when no two items share an id.
C18_WhenIdsDiffer == IdsDiffer => ErrorsContained

\* C18 witness: a and b carry the same id; the check of a found a leak, the
\* check of b met an error and was drained last; a ends flagged not leaked.
C18_Witness ==
  /\ pc = "done" /\ SlugsOf(shows) = {"a", "b"}
  /\ ItemOf(shows, "a").imdbID = "tt1" /\ ItemOf(shows, "b").imdbID = "tt1"
  /\ leakQueries["a"] = <<"vip rip">> /\ LeakErrored("b")
  /\ ItemOf(shows, "a").isLeaked = FALSE


(* ------------------------- exceptions of a lookup ----------------------- *)

\* C19 as claimed: an exception raised anywhere in the lookup task of one
\* item stays with that item: enrich_with_omdb does not raise, and when it
\* has returned every item that missed the cache has been drained and has a
\* row, the item whose task raised with seven empty fields.
C19_LookupExceptionContained ==
  /\ mpc \notin {"unwinding", "raised"}
  /\ (mpc = "returned" /\ api_key) =>
       \A s \in MissedAtStart :
         /\ s \in drained /\ HasRow(cache, s, clockDay)
         /\ task[s].st = "raised" => AllEmpty(ItemOf(shows, s))

\* C19, the case that holds: an exception raised inside the try block of
\* fetch_omdb_data (a transport error, a year that is no number) gives the
\* empty dict, and the item is drained with seven empty fields.
C19_InsideTry ==
  \A s \in drained :
    (/\ task[s].reqs # <<>>
     /\ \/ world.first[s] = {Transport}
        \/ task[s].year = "TBA" /\ world.first[s] = {NotFound})
      => task[s].result = EmptyDict /\ AllEmpty(ItemOf(shows, s))

\* C19 witness: the task of b raised while deriving title and year; the
\* lookup of a had its answer, but enrich_with_omdb raised before draining
\* it, and nothing was committed.
C19_Witness ==
  /\ mpc = "raised" /\ MissedAtStart = {"a", "b"}
  /\ task["b"].st = "raised"
  /\ task["a"].st = "done" /\ task["a"].result.imdbRating = "7.5"
  /\ "a" \notin drained
  /\ ItemOf(shows, "a").omdbRating = Absent
  /\ disk = cacheAtStart


(* ------------------------------- threads -------------------------------- *)

\* The step is one of a pool worker: a fetch_omdb_data task advances, or a
\* check_leak or enrich_or_fetch task runs to its end.
WorkerStep ==
  \/ task' # task /\ mpc' = mpc /\ PoolOpen
  \/ leakQueries' # leakQueries /\ pc = "leak"
  \/ futs' # futs /\ pc = "single_show"

\* C20: every statement run on the cache and marker tables is run by the
\* main thread, so no two writes are in progress at once; and a step of a
\* worker of any pool leaves the tables as they are and runs no statement.
C20_MainThreadOnly ==
  /\ [](\A e \in dbAccess : e.thread = "main")
  /\ [][WorkerStep => UNCHANGED <<cache, disk, seen, seen_bookable, seen_soon,
                                  dbAccess>>]_vars

\* C20 witness: a run is over in which the three pools had work and the
\* main thread wrote a marker and a cache row.
C20_Witness ==
  /\ pc = "done"
  /\ drained # {}
  /\ \E s \in Slugs : leakQueries[s] # <<>>
  /\ [thread |-> "main", table |-> "omdb_cache", op |-> "write"] \in dbAccess
  /\ [thread |-> "main", table |-> "seen", op |-> "write"] \in dbAccess
  /\ [thread |-> "main", table |-> "seen_bookable", op |-> "write"] \in dbAccess


(* ------------------- claims: the order of writes and lookups ------------ *)

\* A statement of the drain loop has written a row in this step.
WritesRow == mpc = "pool" /\ mpc' = "pool" /\ upserts' # upserts

\* The lookups of the run that have not completed yet.
Unfinished == {s \in DOMAIN task : task[s].st \in {"queued", "running", "retry"}}

\* C21 as stated: every cache write of a run happens after the pool has
\* completed all of the run's lookups, so no row is written while a lookup
\* is still pending or running.
C21_Original == [][WritesRow => Unfinished = {}]_vars

\* C21, amended: a row is written only for an item whose own lookup has
\* completed, one row per step of the drain loop, possibly while lookups of
\* other items are still pending or running; only the commit waits for
\* every lookup of the run to be over and drained.
C21_WriteAfterOwnLookup ==
  [][/\ WritesRow =>
          \E s \in DOMAIN task :
            /\ task[s].st = "done" /\ s \notin drained
            /\ drained' = drained \cup {s}
            /\ upserts' = [upserts EXCEPT ![s] = @ + 1]
     /\ disk' # disk => (Unfinished = {} /\ drained = DOMAIN task)]_vars

\* A row of the run is in the table while another lookup is still running.
C21_Witness ==
  /\ mpc = "pool"
  /\ \E s \in drained : HasRow(cache, s, today) /\ ~HasRow(disk, s, today)
  /\ \E t \in DOMAIN task : task[t].st = "running"


(* ------------------- claims: a failed single-show call ------------------ *)

\* C22: an item whose single-show call failed loses only the fields of that
\* call; it stays among the items of the run (stated for the items that were
\* in the list before the stage, for as long as main() holds slug_to_obj).
C22_FailedItemKept ==
  \A s \in failed : (pc = "single_show" /\ s \notin stubs) => s \in SlugsOf(shows)

\* The run of the scenario wrote its output without item a, whose
\* single-show call failed, and with item c.
C22_Witness ==
  /\ pc = "done" /\ written = 1 /\ world = KnownWorld
  /\ failed = {"a"}
  /\ SlugsOf(shows) = {"c"}


(* ------------------- claims: transport errors after fetch_shows --------- *)

\* C23: a transport error of an endpoint other than the catalog never ends
\* main() with an exception.  The only other exception of the model is the
\* one enrich_with_omdb raises (mpc = "raised"), which is no transport
\* error, so the claim says that main() crashes in no other way.
C23_TransportNeverFatal == pc = "crashed" => mpc = "raised"

\* main() ended with the exception of a zone or cinema request: the catalog
\* had been fetched, the merger was never called, and nothing was written.
C23_Witness ==
  /\ pc = "crashed" /\ mpc = "idle"
  /\ Len(replies) > 0 /\ Accepts(replies[Len(replies)])
  /\ written = 0


(* ------------------- claims: the records of omdb_cache ------------------ *)

OnePerKey(tbl) ==
  \A r1 \in tbl, r2 \in tbl :
    (r1.slug = r2.slug /\ r1.yyyymmdd = r2.yyyymmdd) => r1 = r2

\* C24: whatever upserts are executed, in whatever runs, the table holds at
\* most one record per (identity, calendar day), as the connection sees it
\* and as committed.
C24_OneRecordPerKey == OnePerKey(cache) /\ OnePerKey(disk)

\* An identity has been upserted a second time in a run of the second day,
\* with a card unlike the one committed before, next to its record of the
\* first day.
C24_Witness ==
  /\ mpc = "pool" /\ today = Today
  /\ upserts["a"] = 2
  /\ HasRow(disk, "a", Today) /\ HasRow(disk, "a", Yesterday)
  /\ FetchOne(cache, "a", Today) # FetchOne(disk, "a", Today)


\* C25: a record, once in the table, keeps all its fields: no step of the
\* merger, in the run that wrote it or in a later run of that day, removes
\* or changes a committed record, and within a run the table as the
\* connection sees it only gains records.  (When the process ends without
\* the commit, the next connection sees the committed table.)
C25_RecordsImmutable ==
  [][/\ disk \subseteq disk'
     /\ \/ cache \subseteq cache'
        \/ mpc \in {"returned", "raised"} /\ cache' = disk]_vars

\* The drain loop has upserted an item of the batch while the record that an
\* earlier run of the day committed for another item is in the table as it
\* was.
C25_Witness ==
  /\ mpc = "pool" /\ drained # {}
  /\ \E s \in SlugsOf(shows) \ missing :
       /\ HasRow(disk, s, today)
       /\ FetchOne(cache, s, today) = FetchOne(disk, s, today)


(* ------------------- claims: the identity of an item -------------------- *)

\* The stages of main() that work on the items they are given.
ItemStages == {"zone_data", "cinemas", "enrich", "leak", "write"}

\* C26: no stage changes the slug of an item.  The zone filter keeps or
\* drops items; the zone merge and the single-show merge return, for the
\* key of slug_to_obj whose future is drained, a dict with that slug; the
\* trackers, the rating enrichment and the leak annotation leave the slugs
\* of the list, and their number, as they were.
C26_SlugStable ==
  [][/\ pc = "zone_filter" => SlugsOf(shows') \subseteq SlugsOf(shows)
     /\ pc = "single_show" =>
          SlugsOf(shows') \ SlugsOf(shows) \subseteq futs \ futs'
     /\ pc \in ItemStages =>
          /\ SlugsOf(shows') = SlugsOf(shows)
          /\ Cardinality(shows') = Cardinality(shows)]_vars

\* An item that went through the zone merge, the single-show merge, the
\* trackers, the rating enrichment and the leak annotation is written with
\* the slug it had in the catalog, next to another item.
C26_Witness ==
  /\ pc = "done" /\ written = 1
  /\ "b" \in SlugsOf(shows) /\ "a" \in SlugsOf(shows)
  /\ Truthy(ItemOf(shows, "b").imdbID)
  /\ ItemOf(shows, "b").isLeaked \in BOOLEAN
  /\ HasRow(disk, "b", today)
  /\ "b" \in DOMAIN seen


(* ------------------- claims: the pool of the rating step ---------------- *)

\* The card an item ends the run with when every lookup of the world has
\* one possible answer: the cached row, or the answer to its one lookup.
PoolExpected(s) ==
  IF HasRow(cacheAtStart, s, today)
    THEN Hydrate(NewItem(s), FetchOne(cacheAtStart, s, today))
    ELSE CopyIntoCard(NewItem(s), ResultOf(CHOOSE d \in world.first[s] : TRUE))

C27_FinalFromResults ==
  /\ (mpc = "returned" /\ api_key) =>
       \A s \in MissedAtStart :
         /\ ItemOf(shows, s) = CopyIntoCard(NewItem(s), task[s].result)
         /\ SelectRows(disk, s, today) = {RowOf(ItemOf(shows, s), today)}
  /\ mpc = "raised" => disk = cacheAtStart


(* ------------------- claims: the order of the leak checks --------------- *)

\* C28: whatever the order in which the leak checks complete, every item
\* with an external id ends the run flagged with the result of the check
\* that was issued for it.
C28_FlagIsOwnResult ==
  LeakStageOver =>
    \A s \in WithImdbId(shows) : ItemOf(shows, s).isLeaked = OwnLeakResult(s)

\* a and b carry the same id; the check of a found nothing, the check of b
\* found a leak and completed last: a is written flagged as leaked.
C28_Witness ==
  /\ pc = "done" /\ SlugsOf(shows) = {"a", "b"}
  /\ ItemOf(shows, "a").imdbID = "tt1" /\ ItemOf(shows, "b").imdbID = "tt1"
  /\ leakQueries["a"] = <<"nothing">> /\ leakQueries["b"] = <<"vip rip">>
  /\ ItemOf(shows, "a").isLeaked = TRUE


(* ------------------- claims: the lifecycle tag of a card ---------------- *)

LifecycleTags == {"now", "book", "soon", "future"}

\* The tag the claim gives a card with these arguments.
ClaimedTag(a) ==
  IF a.zoneNext24 > 0 THEN "now"
  ELSE IF a.bookable THEN "book"
  ELSE IF a.isComingSoon THEN "soon"
  ELSE "future"

\* C29: for every count >= 0, bookable flag and coming-soon flag the
\* rendered card carries exactly one lifecycle tag (now when the count is
\* positive, otherwise book when bookable, otherwise soon when coming soon,
\* otherwise future), and it has class hidden exactly when that tag is
\* future.
C29_OneLifecycleTag ==
  page = "loaded" =>
    /\ Cardinality({i \in DOMAIN cardDom.tags : cardDom.tags[i] \in LifecycleTags}) = 1
    /\ Has(cardDom.tags, ClaimedTag(cardArgs))
    /\ cardDom.hidden <=> ClaimedTag(cardArgs) = "future"

\* A card with showtimes in the zone that is neither bookable nor coming
\* soon has been rendered, tagged now next to other tags and not hidden.
C29_Witness ==
  /\ page = "loaded"
  /\ cardArgs.zoneNext24 > 0 /\ ~cardArgs.bookable /\ ~cardArgs.isComingSoon
  /\ cardDom.tags = <<"now", "new", "web">>
  /\ ~cardDom.hidden

(* ------------------- claims: the faces of a card ------------------------ *)

\* C30: whatever was swiped and clicked, exactly one face of the card is
\* active, the active dot (of a card that has dots) is the one of the active
\* face, the card has class alt-face exactly when the active face is not
\* face 0, and no handler has indexed a face or dot that does not exist.
C30_FacesConsistent ==
  page = "loaded" =>
    /\ Cardinality(faceActive) = 1
    /\ cardDom.dots > 0 => dotActive = faceActive
    /\ altFace <=> faceActive # {0}
    /\ ~jsError

\* The film plays in two favourite cinemas: the card has two logos and two
\* faces, the second logo was clicked, faces[2] did not exist, and no face
\* and no dot is active.
C30_Witness ==
  /\ page = "loaded"
  /\ cardDom.logos = 2 /\ cardDom.faces = 2
  /\ jsError
  /\ faceActive = {} /\ dotActive = {}

====
